---- MODULE Spec2Model ----
(***************************************************************************)
(* Crawl engine and concurrency bridge of Nova-search-backend.             *)
(*                                                                         *)
(* Spec     : Crawler._sync_crawl_worker driven by crawl() and followed by *)
(*            the /crawl route's index_pages call.                         *)
(* LiveSpec : the /ws/smartsearch live session (handler, worker thread,    *)
(*            scraper coroutine, heartbeat task, request-serving loop).    *)
(*                                                                         *)
(* URLs are small integers: 1..NumUrls are absolute http(s) URLs, NonHttp  *)
(* is a resolved href whose scheme is neither http nor https, and a        *)
(* negative number -u is the scheme-less spelling of URL u.  BadHref is an *)
(* href on which urljoin raises ValueError (such as "http://[bad").        *)
(***************************************************************************)
EXTENDS Integers, Sequences, FiniteSets, TLC

\* ---- bounds of the model ----
NumUrls == 5
MaxLinks == 2
MaxSeeds == 2
MaxPagesBound == 3
SessionPagesBound == 2
DeepPagesBound == 5
MaxQueryLen == 1
MaxBeats == 2
MaxResults == 2
MaxCands == 2
MaxTitleLen == 2
MaxContentLen == 1
MaxRankQueryLen == 3
MaxWordLen == 1
MaxKids == 2
MaxHeadingLevel == 2
MaxMetas == 2
MaxBodyLen == 2
MaxRequests == 2
MaxThreads == 1

\* ---- program constants ----
SeedScore == 100
LinkWeight == 10
SnippetLen == 200
SnippetBefore == 60
SnippetAfter == 140

Urls == 1..NumUrls
NonHttp == 0
BadHref == NumUrls + 1
SeedForms == Urls \cup {0 - 1}
SessionSeedForms == {1, 2, 0 - 1}
Words == {1, 2}

\* Sequences over S of length at most n.
RECURSIVE SeqsUpTo(_, _)
SeqsUpTo(S, n) ==
    IF n = 0 THEN {<<>>}
    ELSE LET shorter == SeqsUpTo(S, n - 1)
         IN shorter \cup {Append(s, x) : s \in {t \in shorter : Len(t) = n - 1}, x \in S}

SeqRange(s) == {s[i] : i \in 1..Len(s)}

\* ---- the URL universe: what the parsers see in each URL ----

\* tldextract.extract(url).registered_domain; "" for an IP address or localhost.
registered_domain(u) ==
    CASE u % 4 = 1 -> "a.com"
      [] u % 4 = 2 -> "a.com"
      [] u % 4 = 3 -> "b.com"
      [] OTHER     -> ""

\* The query words that occur in the lower-cased URL string.
UrlWords(u) ==
    CASE u % 4 = 2 -> {1}
      [] u % 4 = 3 -> {1, 2}
      [] OTHER     -> {}

\* ---- pure functions of the Crawler ----

normalize_url(s) == IF s < 0 THEN 0 - s ELSE s

RECURSIVE score_link(_, _)
score_link(u, q) ==
    IF q = <<>> THEN 0
    ELSE (IF Head(q) \in UrlWords(u) THEN LinkWeight ELSE 0) + score_link(u, Tail(q))

InsertDesc_MutUnstable(s, t) ==
    LET before == {i \in 1..Len(s) : s[i].score > t.score}
        k == Cardinality(before)
    IN SubSeq(s, 1, k) \o <<t>> \o SubSeq(s, k + 1, Len(s))

\* list.sort(key=score, reverse=True) is stable: a task goes after every
\* task whose score is at least its own.
RECURSIVE InsertDesc(_, _)
InsertDesc(s, t) ==
    IF s = <<>> THEN <<t>>
    ELSE IF Head(s).score >= t.score THEN <<Head(s)>> \o InsertDesc(Tail(s), t)
    ELSE <<t>> \o s

RECURSIVE SortDesc(_)
SortDesc(q) ==
    IF q = <<>> THEN <<>>
    ELSE InsertDesc(SortDesc(SubSeq(q, 1, Len(q) - 1)), q[Len(q)])

RECURSIVE FilterLinks(_, _, _)
FilterLinks(hrefs, base_domain, restrict) ==
    IF hrefs = <<>> THEN <<>>
    ELSE LET h == Head(hrefs)
             rest == FilterLinks(Tail(hrefs), base_domain, restrict)
         IN IF h \notin Urls THEN rest
            ELSE IF restrict /\ base_domain # "" /\ registered_domain(h) # base_domain THEN rest
            ELSE <<h>> \o rest

extract_links(hrefs, base_url, q, restrict) ==
    LET kept == FilterLinks(hrefs, registered_domain(base_url), restrict)
        scored == [i \in 1..Len(kept) |-> [score |-> score_link(kept[i], q), url |-> kept[i], seq |-> i]]
        sorted == SortDesc(scored)
    IN [i \in 1..Len(sorted) |-> sorted[i].url]

\* ---- text ----
\* A string is a sequence of one-character strings.

Dots == <<".", ".", ".">>

\* str.lower(), character by character.
lower_char(c) == IF c = "A" THEN "a" ELSE IF c = "B" THEN "b" ELSE c

lower(s) == [i \in 1..Len(s) |-> lower_char(s[i])]

\* str.split(): the maximal runs of non-whitespace characters, in order.
RECURSIVE split_from(_, _, _)
split_from(s, cur, acc) ==
    IF s = <<>> THEN (IF cur = <<>> THEN acc ELSE Append(acc, cur))
    ELSE IF Head(s) \in {" ", "\n"}
         THEN split_from(Tail(s), <<>>, IF cur = <<>> THEN acc ELSE Append(acc, cur))
         ELSE split_from(Tail(s), Append(cur, Head(s)), acc)

split(s) == split_from(s, <<>>, <<>>)

\* s[i:i+len(t)] == t, for a 1-based i.
match_at(s, i, t) ==
    /\ i + Len(t) - 1 <= Len(s)
    /\ \A k \in 1..Len(t) : s[i + k - 1] = t[k]

\* str.count(t): the occurrences met scanning left to right, each scan
\* resuming after the end of the last occurrence (an empty t matches
\* between all characters).
RECURSIVE count_from(_, _, _)
count_from(s, t, i) ==
    IF i + Len(t) - 1 > Len(s) THEN 0
    ELSE IF match_at(s, i, t) THEN 1 + count_from(s, t, i + Len(t))
         ELSE count_from(s, t, i + 1)

count(s, t) == IF t = <<>> THEN Len(s) + 1 ELSE count_from(s, t, 1)

\* str.find(t): the 0-based index of the first occurrence, or -1.
find(s, t) ==
    LET at == {i \in 1..(Len(s) + 1) : match_at(s, i, t)}
    IN IF at = {} THEN 0 - 1 ELSE (CHOOSE i \in at : \A j \in at : i <= j) - 1

\* s[a:b] for 0 <= a, 0 <= b.
slice(s, a, b) == SubSeq(s, a + 1, IF b < Len(s) THEN b ELSE Len(s))

\* ---- rank_results ----

\* dict.get(key, "")
get(res, key) == IF key \in DOMAIN res THEN res[key] ELSE <<>>

term_score_MutUnweighted(title, content, term) == count(title, term) + count(content, term)

\* score += title.count(term) * 3; score += content.count(term)
term_score(title, content, term) == count(title, term) * 3 + count(content, term)

RECURSIVE score_of(_, _, _)
score_of(title, content, terms) ==
    IF terms = <<>> THEN 0
    ELSE term_score(title, content, Head(terms)) + score_of(title, content, Tail(terms))

\* The first 200 characters of the content, or a window around the first
\* query term that occurs in the lower-cased content.
snippet_of(res, terms) ==
    LET content == lower(get(res, "content"))
        hits == {k \in 1..Len(terms) : find(content, terms[k]) # 0 - 1}
    IN IF hits = {} THEN slice(get(res, "content"), 0, SnippetLen)
       ELSE LET idx == find(content, terms[CHOOSE k \in hits : \A j \in hits : k <= j])
                start == IF idx - SnippetBefore > 0 THEN idx - SnippetBefore ELSE 0
                end == IF idx + SnippetAfter < Len(content) THEN idx + SnippetAfter
                       ELSE Len(content)
            IN Dots \o slice(get(res, "content"), start, end) \o Dots

scored_result(res, terms) ==
    [url |-> res["url"], title |-> res["title"], snippet |-> snippet_of(res, terms),
     score |-> score_of(lower(get(res, "title")), lower(get(res, "content")), terms)]

rank_results_MutDropsUnmatched(results, q) ==
    IF results = <<>> THEN [status |-> "ok", entries |-> <<>>]
    ELSE IF \E i \in 1..Len(results) : {"url", "title"} \ DOMAIN results[i] # {}
         THEN [status |-> "KeyError", entries |-> <<>>]
         ELSE LET terms == split(lower(q))
                  scored == [i \in 1..Len(results) |-> scored_result(results[i], terms)]
                  matched(e) == e.score > 0
              IN [status |-> "ok", entries |-> SortDesc(SelectSeq(scored, matched))]

\* rank_results: [] for no results; otherwise every result is scored and
\* the entries sorted by score, descending; res["url"] and res["title"]
\* raise KeyError on a result without that key.
rank_results(results, q) ==
    IF results = <<>> THEN [status |-> "ok", entries |-> <<>>]
    ELSE IF \E i \in 1..Len(results) : {"url", "title"} \ DOMAIN results[i] # {}
         THEN [status |-> "KeyError", entries |-> <<>>]
         ELSE LET terms == split(lower(q))
                  scored == [i \in 1..Len(results) |-> scored_result(results[i], terms)]
              IN [status |-> "ok", entries |-> SortDesc(scored)]

\* ---- html_to_markdown ----
\* A parsed element is a record: a string (kind "text") or a tag with its
\* name, its heading level, its href attribute and its children.  A URL is
\* a record of its origin and its path segments, an href the same with an
\* empty origin when it is relative and rooted when it starts with "/".

Whitespace == {" ", "\n"}

RECURSIVE lstrip(_)
lstrip(s) == IF s # <<>> /\ Head(s) \in Whitespace THEN lstrip(Tail(s)) ELSE s

RECURSIVE rstrip(_)
rstrip(s) ==
    IF s # <<>> /\ s[Len(s)] \in Whitespace THEN rstrip(SubSeq(s, 1, Len(s) - 1)) ELSE s

strip(s) == lstrip(rstrip(s))

NoHref == [kind |-> "none", origin |-> "", rooted |-> FALSE, path |-> <<>>]

Text(t) == [kind |-> "text", name |-> "", level |-> 0, href |-> NoHref, text |-> t,
            kids |-> <<>>]

Tag(n, lv, h, ks) == [kind |-> "tag", name |-> n, level |-> lv, href |-> h,
                      text |-> <<>>, kids |-> ks]

urljoin_MutKeepsHref(base, href) == [origin |-> href.origin, path |-> href.path]

\* urljoin(base_url, href): an absolute href as it is, a rooted one on the
\* base's origin, a relative one in the directory of the base's path.
urljoin(base, href) ==
    IF href.origin # "" THEN [origin |-> href.origin, path |-> href.path]
    ELSE IF href.rooted THEN [origin |-> base.origin, path |-> href.path]
    ELSE [origin |-> base.origin,
          path |-> (IF base.path = <<>> THEN <<>> ELSE SubSeq(base.path, 1, Len(base.path) - 1))
                       \o href.path]

\* The spelling of a URL: its origin, then "/" and a segment for each
\* segment of its path.
RECURSIVE path_text(_)
path_text(path) ==
    IF path = <<>> THEN <<>> ELSE <<"/", Head(path)>> \o path_text(Tail(path))

url_text(u) == <<u.origin>> \o path_text(u.path)

RemovedTags == {"script", "style", "nav", "footer", "header", "aside", "form", "iframe"}

\* tag.decompose() for every tag of RemovedTags.
RECURSIVE decompose(_)
decompose(elem) ==
    IF elem.kind = "text" THEN elem
    ELSE LET keep(k) == ~(k.kind = "tag" /\ k.name \in RemovedTags)
             kept == SelectSeq(elem.kids, keep)
         IN [elem EXCEPT !.kids = [i \in 1..Len(kept) |-> decompose(kept[i])]]

\* soup.find(["article", "main"]): the first such tag in document order.
RECURSIVE find_main(_)
find_main(elems) ==
    IF elems = <<>> THEN <<>>
    ELSE LET e == Head(elems)
         IN IF e.kind = "tag" /\ e.name \in {"article", "main"} THEN <<e>>
            ELSE LET inside == IF e.kind = "tag" THEN find_main(e.kids) ELSE <<>>
                 IN IF inside # <<>> THEN inside ELSE find_main(Tail(elems))

\* elem.get_text(strip=True): the stripped strings below elem, the empty
\* ones left out, joined.
RECURSIVE get_text(_)
get_text(elem) ==
    IF elem.kind = "text" THEN strip(elem.text)
    ELSE LET RECURSIVE join(_)
             join(ks) == IF ks = <<>> THEN <<>> ELSE get_text(Head(ks)) \o join(Tail(ks))
         IN join(elem.kids)

RECURSIVE Hashes(_)
Hashes(n) == IF n = 0 THEN <<>> ELSE <<"#">> \o Hashes(n - 1)

\* process_element: [status, text]; urljoin raises ValueError on an href it
\* cannot parse.  (img, the one tag rendered from attributes other than
\* href, is not among the modelled elements.)
RECURSIVE process_element(_, _)
process_element(elem, base) ==
    IF elem.kind = "text" THEN [status |-> "ok", text |-> strip(elem.text)]
    ELSE
      LET RECURSIVE children(_)
          children(ks) ==
              IF ks = <<>> THEN [status |-> "ok", text |-> <<>>]
              ELSE LET first == process_element(Head(ks), base)
                       rest == children(Tail(ks))
                   IN IF first.status # "ok" THEN first
                      ELSE IF rest.status # "ok" THEN rest
                      ELSE [status |-> "ok", text |-> first.text \o rest.text]
          children_text == children(elem.kids)
          text == get_text(elem)
          ok(t) == [status |-> "ok", text |-> t]
      IN IF children_text.status # "ok" THEN children_text
         ELSE IF elem.name = "h"
              THEN ok(IF text # <<>>
                      THEN <<"\n">> \o Hashes(elem.level) \o <<" ">> \o text \o <<"\n", "\n">>
                      ELSE <<>>)
         ELSE IF elem.name = "p"
              THEN ok(IF text # <<>> THEN text \o <<"\n", "\n">> ELSE <<>>)
         ELSE IF elem.name = "a"
              THEN IF elem.href.kind = "none" THEN ok(text)
                   ELSE IF elem.href.kind = "bad" THEN [status |-> "ValueError", text |-> <<>>]
                   ELSE ok(IF text # <<>>
                           THEN <<"[">> \o text \o <<"]", "(">>
                                    \o url_text(urljoin(base, elem.href)) \o <<")">>
                           ELSE <<>>)
         ELSE IF elem.name \in {"strong", "b"}
              THEN ok(IF text # <<>> THEN <<"*", "*">> \o text \o <<"*", "*">> ELSE <<>>)
         ELSE IF elem.name \in {"em", "i"}
              THEN ok(IF text # <<>> THEN <<"*">> \o text \o <<"*">> ELSE <<>>)
         ELSE IF elem.name = "li"
              THEN ok(IF text # <<>> THEN <<"-", " ">> \o text \o <<"\n">> ELSE <<>>)
         ELSE IF elem.name = "br" THEN ok(<<"\n">>)
         ELSE IF elem.name = "hr" THEN ok(<<"\n", "-", "-", "-", "\n", "\n">>)
         ELSE IF elem.name \in {"ul", "ol"}
              THEN ok(<<"\n">> \o children_text.text \o <<"\n">>)
         ELSE children_text

\* re.sub(r"\n{3,}", "\n\n", markdown)
RECURSIVE collapse_newlines(_, _)
collapse_newlines(s, run) ==
    IF s = <<>> THEN <<>>
    ELSE IF Head(s) = "\n"
         THEN (IF run >= 2 THEN <<>> ELSE <<"\n">>) \o collapse_newlines(Tail(s), run + 1)
         ELSE <<Head(s)>> \o collapse_newlines(Tail(s), 0)

\* "\n".join(line.rstrip() for line in markdown.split("\n"))
RECURSIVE rstrip_lines(_, _)
rstrip_lines(s, line) ==
    IF s = <<>> THEN rstrip(line)
    ELSE IF Head(s) = "\n" THEN rstrip(line) \o <<"\n">> \o rstrip_lines(Tail(s), <<>>)
    ELSE rstrip_lines(Tail(s), Append(line, Head(s)))

\* html_to_markdown(html, base_url), html given as the parsed document.
html_to_markdown(soup, base) ==
    LET cleaned == decompose(soup)
        found == find_main(cleaned.kids)
        content_area == IF found # <<>> THEN found[1] ELSE cleaned
        processed == process_element(content_area, base)
    IN IF processed.status # "ok" THEN processed
       ELSE [status |-> "ok",
             text |-> strip(rstrip_lines(collapse_newlines(processed.text, 0), <<>>))]

\* ---- state ----
VARIABLES
    \* arguments of crawl() and the Crawler's budget
    start_urls, query, restrict_domain, max_pages,
    \* _sync_crawl_worker
    pc, browser, seed_idx, parent_url, local_visited,
    site_visited, site_children, site_content_parts, queue, task, html,
    final_aggregated_results,
    \* number of queue.append calls so far (history: stamps each task)
    push_count,
    \* the /crawl route
    stored, response,
    \* the /ws/smartsearch session: client, handler and request-serving loop
    connected, request, h_pc, result_future, future_sets, main_q, sent,
    \* the worker thread: scraper coroutine and heartbeat task on new_loop
    s_pc, live_browser, scraper_exc, remaining, scraped_results,
    hb_pc, stop_heartbeat, beats,
    \* history: URLs whose fetch failed in this crawl() call
    failed_urls,
    \* history: page visits and heartbeat iterations begun after the client
    \* had gone
    gone_visits, gone_beats,
    \* rank_results: its arguments, its position and its outcome
    r_results, r_query, r_pc, r_out,
    \* html_to_markdown: its arguments, its position and its outcome
    md_html, md_base, md_pc, md_out,
    \* _sync_scrape_detailed: the page the driver would return, the position,
    \* the browser, the locals html, title, content and metadata_dict, the
    \* metas still to visit, and the returned value
    sd_page, sd_pc, sd_browser, sd_html, sd_title, sd_content, sd_metadata,
    sd_metas, sd_out,
    \* the request-serving loop and the thread pool of asyncio.to_thread: the
    \* route of each request, the call stack and the state of its coroutine,
    \* the request the loop thread is running (0: none), the submitted jobs
    \* and what each pool thread is running
    br_route, br_stack, br_state, br_loop, br_jobs, br_pool

crawl_vars == <<start_urls, query, restrict_domain, max_pages, pc, browser, seed_idx,
                parent_url, local_visited, site_visited, site_children,
                site_content_parts, queue, task, html, final_aggregated_results,
                push_count, stored, response, failed_urls>>

live_vars == <<connected, request, h_pc, result_future, future_sets, main_q, sent,
               s_pc, live_browser, scraper_exc, remaining, scraped_results,
               hb_pc, stop_heartbeat, beats, gone_visits, gone_beats>>

rank_vars == <<r_results, r_query, r_pc, r_out>>

md_vars == <<md_html, md_base, md_pc, md_out>>

scrape_vars == <<sd_page, sd_pc, sd_browser, sd_html, sd_title, sd_content, sd_metadata,
                 sd_metas, sd_out>>

bridge_vars == <<br_route, br_stack, br_state, br_loop, br_jobs, br_pool>>

pure_vars == <<rank_vars, md_vars, scrape_vars, bridge_vars>>

NoTask == [score |-> 0, url |-> NonHttp, seq |-> 0]
NoHtml == [kind |-> "none", links |-> <<>>]
\* The anchors of a page: up to MaxLinks http(s) links, possibly after an
\* anchor of another scheme, or an anchor whose href urljoin rejects.
LinkLists ==
    SeqsUpTo(Urls, MaxLinks)
        \cup {<<NonHttp>> \o ls : ls \in SeqsUpTo(Urls, 1)}
        \cup {<<BadHref>> \o ls : ls \in SeqsUpTo(Urls, 1)}
Pages == {[kind |-> "page", links |-> ls] : ls \in LinkLists}

\* One parent with a page budget up to MaxPagesBound or with the deep budget,
\* or several parents with a small one.
CrawlRequests ==
    {[urls |-> <<s>>, budget |-> b] :
         s \in SeedForms, b \in (0..MaxPagesBound) \cup {DeepPagesBound}}
        \cup {[urls |-> ss, budget |-> b] :
                 ss \in {t \in SeqsUpTo(SessionSeedForms, MaxSeeds) : Len(t) >= 2},
                 b \in 0..SessionPagesBound}

InitCrawl ==
    /\ \E r \in CrawlRequests : start_urls = r.urls /\ max_pages = r.budget
    /\ query \in SeqsUpTo(Words, MaxQueryLen)
    /\ restrict_domain \in BOOLEAN
    /\ pc = "launch"
    /\ browser = "none"
    /\ seed_idx = 1
    /\ parent_url = NonHttp
    /\ local_visited = {}
    /\ site_visited = {}
    /\ site_children = <<>>
    /\ site_content_parts = <<>>
    /\ queue = <<>>
    /\ task = NoTask
    /\ html = NoHtml
    /\ final_aggregated_results = <<>>
    /\ push_count = 0
    /\ stored = {}
    /\ response = "none"
    /\ failed_urls = {}

\* ---- _sync_crawl_worker ----

\* p.chromium.launch(): the driver starts, or the launch raises.
Launch ==
    /\ pc = "launch"
    /\ \E ok \in BOOLEAN :
         IF ok THEN browser' = "open" /\ pc' = "seed"
         ELSE browser' = "none" /\ pc' = "raised"
    /\ UNCHANGED <<live_vars, pure_vars>>
    /\ UNCHANGED <<start_urls, query, restrict_domain, max_pages, seed_idx, parent_url,
                   local_visited, site_visited, site_children, site_content_parts,
                   queue, task, html, final_aggregated_results, push_count, stored,
                   response,
                   failed_urls>>

\* for start_url in start_urls: a seed already fetched under an earlier seed
\* is skipped, any other seed gets fresh per-parent structures.
NextSeed ==
    /\ pc = "seed"
    /\ seed_idx <= Len(start_urls)
    /\ LET p == normalize_url(start_urls[seed_idx])
       IN IF p \in local_visited
          THEN /\ seed_idx' = seed_idx + 1
               /\ parent_url' = p
               /\ UNCHANGED <<pc, site_visited, site_children, site_content_parts,
                              queue, push_count>>
          ELSE /\ parent_url' = p
               /\ site_visited' = {}
               /\ site_children' = <<>>
               /\ site_content_parts' = <<>>
               /\ queue' = <<[score |-> SeedScore, url |-> p, seq |-> push_count + 1]>>
               /\ push_count' = push_count + 1
               /\ pc' = "loop"
               /\ UNCHANGED seed_idx
    /\ UNCHANGED <<live_vars, pure_vars>>
    /\ UNCHANGED <<start_urls, query, restrict_domain, max_pages, browser, local_visited,
                   task, html, final_aggregated_results, stored, response,
                   failed_urls>>

loop_cond_MutOffByOne == queue # <<>> /\ Cardinality(site_visited) <= max_pages

\* while queue and len(site_visited) < max_pages
loop_cond == queue # <<>> /\ Cardinality(site_visited) < max_pages

Pop_MutPopsUnsorted ==
    /\ pc = "loop"
    /\ loop_cond
    /\ task' = Head(queue)
    /\ queue' = Tail(queue)
    /\ pc' = IF Head(queue).url \in site_visited THEN "loop" ELSE "fetch"
    /\ UNCHANGED <<live_vars, pure_vars>>
    /\ UNCHANGED <<start_urls, query, restrict_domain, max_pages, browser, seed_idx,
                   parent_url, local_visited, site_visited, site_children,
                   site_content_parts, html, final_aggregated_results, push_count,
                   stored, response,
                   failed_urls>>

\* The loop body's head: sort, pop(0), skip a visited URL.
Pop ==
    /\ pc = "loop"
    /\ loop_cond
    /\ LET sorted == SortDesc(queue)
       IN /\ task' = Head(sorted)
          /\ queue' = Tail(sorted)
          /\ pc' = IF Head(sorted).url \in site_visited THEN "loop" ELSE "fetch"
    /\ UNCHANGED <<live_vars, pure_vars>>
    /\ UNCHANGED <<start_urls, query, restrict_domain, max_pages, browser, seed_idx,
                   parent_url, local_visited, site_visited, site_children,
                   site_content_parts, html, final_aggregated_results, push_count,
                   stored, response,
                   failed_urls>>

\* _sync_fetch: the page's markup, or None when the driver raised; the
\* markup is modelled by the resolved hrefs of its anchors.  html is dead
\* once the iteration has used it, and is cleared there.
Fetch ==
    /\ pc = "fetch"
    /\ html' \in Pages \cup {[kind |-> "none", links |-> <<>>],
                             [kind |-> "empty", links |-> <<>>]}
    /\ pc' = "got"
    /\ UNCHANGED <<live_vars, pure_vars>>
    /\ UNCHANGED <<start_urls, query, restrict_domain, max_pages, browser, seed_idx,
                   parent_url, local_visited, site_visited, site_children,
                   site_content_parts, queue, task, final_aggregated_results,
                   push_count, stored, response,
                   failed_urls>>

SkipFailed_MutRetries ==
    /\ pc = "got"
    /\ html.kind # "page"
    /\ pc' = "loop"
    /\ html' = NoHtml
    /\ queue' = Append(queue, task)
    /\ failed_urls' = failed_urls \cup {task.url}
    /\ UNCHANGED <<live_vars, pure_vars>>
    /\ UNCHANGED <<start_urls, query, restrict_domain, max_pages, browser, seed_idx,
                   parent_url, local_visited, site_visited, site_children,
                   site_content_parts, task, final_aggregated_results, push_count,
                   stored, response>>

SkipFailed_MutMarksVisited ==
    /\ pc = "got"
    /\ html.kind # "page"
    /\ pc' = "loop"
    /\ html' = NoHtml
    /\ site_visited' = site_visited \cup {task.url}
    /\ failed_urls' = failed_urls \cup {task.url}
    /\ UNCHANGED <<live_vars, pure_vars>>
    /\ UNCHANGED <<start_urls, query, restrict_domain, max_pages, browser, seed_idx,
                   parent_url, local_visited, site_children, site_content_parts,
                   queue, task, final_aggregated_results, push_count, stored,
                   response>>

\* if not html: continue
SkipFailed ==
    /\ pc = "got"
    /\ html.kind # "page"
    /\ pc' = "loop"
    /\ html' = NoHtml
    /\ failed_urls' = failed_urls \cup {task.url}
    /\ UNCHANGED <<live_vars, pure_vars>>
    /\ UNCHANGED <<start_urls, query, restrict_domain, max_pages, browser, seed_idx,
                   parent_url, local_visited, site_visited, site_children,
                   site_content_parts, queue, task, final_aggregated_results,
                   push_count, stored, response>>

RECURSIVE PushLinks_MutNoRoomCheck(_, _, _, _)
PushLinks_MutNoRoomCheck(q, links, visited, n) ==
    IF links = <<>> THEN q
    ELSE LET link == Head(links)
             fresh == link \notin visited /\ \A i \in 1..Len(q) : q[i].url # link
         IN IF fresh
            THEN PushLinks_MutNoRoomCheck(
                     Append(q, [score |-> score_link(link, query), url |-> link,
                                seq |-> n + 1]),
                     Tail(links), visited, n + 1)
            ELSE PushLinks_MutNoRoomCheck(q, Tail(links), visited, n)

RECURSIVE PushLinks_MutNoPendingCheck(_, _, _, _)
PushLinks_MutNoPendingCheck(q, links, visited, n) ==
    IF links = <<>> THEN q
    ELSE LET link == Head(links)
             fresh == link \notin visited
             room == Cardinality(visited) + Len(q) < max_pages * 2
         IN IF fresh /\ room
            THEN PushLinks_MutNoPendingCheck(
                     Append(q, [score |-> score_link(link, query), url |-> link,
                                seq |-> n + 1]),
                     Tail(links), visited, n + 1)
            ELSE PushLinks_MutNoPendingCheck(q, Tail(links), visited, n)

\* The for-loop over new_links: a link neither visited nor pending is
\* appended while len(site_visited) + len(queue) < max_pages * 2.
RECURSIVE PushLinks(_, _, _, _)
PushLinks(q, links, visited, n) ==
    IF links = <<>> THEN q
    ELSE LET link == Head(links)
             fresh == link \notin visited /\ \A i \in 1..Len(q) : q[i].url # link
             room == Cardinality(visited) + Len(q) < max_pages * 2
         IN IF fresh /\ room
            THEN PushLinks(Append(q, [score |-> score_link(link, query), url |-> link,
                                      seq |-> n + 1]),
                           Tail(links), visited, n + 1)
            ELSE PushLinks(q, Tail(links), visited, n)

is_child_MutAlways(url) == TRUE

\* if url != parent_url: site_children.append(url)
is_child(url) == url # parent_url

\* A fetched page: visited, converted, aggregated, its links pushed.
ProcessPage ==
    /\ pc = "got"
    /\ html.kind = "page"
    /\ BadHref \notin SeqRange(html.links)
    /\ LET url == task.url
           visited == site_visited \cup {url}
           new_links == extract_links(html.links, url, query, restrict_domain)
           q2 == PushLinks(queue, new_links, visited, push_count)
       IN /\ site_visited' = visited
          /\ site_content_parts' = Append(site_content_parts, url)
          /\ site_children' = IF is_child(url) THEN Append(site_children, url)
                              ELSE site_children
          /\ queue' = q2
          /\ push_count' = push_count + (Len(q2) - Len(queue))
    /\ pc' = "loop"
    /\ html' = NoHtml
    /\ UNCHANGED <<live_vars, pure_vars>>
    /\ UNCHANGED <<start_urls, query, restrict_domain, max_pages, browser, seed_idx,
                   parent_url, local_visited, task, final_aggregated_results,
                   stored, response,
                   failed_urls>>

\* urljoin raises ValueError on a malformed href, in html_to_markdown or in
\* extract_links; nothing in the worker catches it.
ProcessRaises ==
    /\ pc = "got"
    /\ html.kind = "page"
    /\ BadHref \in SeqRange(html.links)
    /\ site_visited' = site_visited \cup {task.url}
    /\ pc' = "raised"
    /\ UNCHANGED <<live_vars, pure_vars>>
    /\ UNCHANGED <<start_urls, query, restrict_domain, max_pages, browser, seed_idx,
                   parent_url, local_visited, site_children, site_content_parts,
                   queue, task, html, final_aggregated_results, push_count, stored,
                   response,
                   failed_urls>>

aggregated_doc_MutJoinsTail ==
    [parentUrl |-> parent_url, childrenUrls |-> site_children,
     content |-> IF site_content_parts = <<>> THEN <<>> ELSE Tail(site_content_parts),
     title |-> parent_url]

aggregated_doc ==
    [parentUrl |-> parent_url, childrenUrls |-> site_children,
     content |-> site_content_parts, title |-> parent_url]

\* The while loop is over: one document for this parent.
FinishSeed ==
    /\ pc = "loop"
    /\ ~loop_cond
    /\ final_aggregated_results' = Append(final_aggregated_results, aggregated_doc)
    /\ local_visited' = local_visited \cup site_visited
    /\ seed_idx' = seed_idx + 1
    /\ pc' = "seed"
    /\ UNCHANGED <<live_vars, pure_vars>>
    /\ UNCHANGED <<start_urls, query, restrict_domain, max_pages, browser, parent_url,
                   site_visited, site_children, site_content_parts, queue, task, html,
                   push_count, stored, response,
                   failed_urls>>

\* browser.close(); return final_aggregated_results
Return ==
    /\ pc = "seed"
    /\ seed_idx > Len(start_urls)
    /\ browser' = "closed"
    /\ pc' = "returned"
    /\ UNCHANGED <<live_vars, pure_vars>>
    /\ UNCHANGED <<start_urls, query, restrict_domain, max_pages, seed_idx, parent_url,
                   local_visited, site_visited, site_children, site_content_parts,
                   queue, task, html, final_aggregated_results, push_count, stored,
                   response,
                   failed_urls>>

\* ---- the /crawl route: results = await crawler.crawl(url); index_pages ----

upsert(db, doc) == {d \in db : d.parentUrl # doc.parentUrl} \cup {doc}

RECURSIVE upsert_all(_, _)
upsert_all(db, docs) ==
    IF docs = <<>> THEN db ELSE upsert_all(upsert(db, Head(docs)), Tail(docs))

\* index_pages upserts the documents one by one; a database error after k
\* of them is re-raised and becomes a 500 response.
start_crawl_index ==
    /\ pc = "returned"
    /\ \E k \in 0..Len(final_aggregated_results) :
         /\ stored' = upsert_all(stored, SubSeq(final_aggregated_results, 1, k))
         /\ response' = IF k = Len(final_aggregated_results) THEN "success" ELSE "error"
    /\ pc' = "done"
    /\ UNCHANGED <<live_vars, pure_vars>>
    /\ UNCHANGED <<start_urls, query, restrict_domain, max_pages, browser, seed_idx,
                   parent_url, local_visited, site_visited, site_children,
                   site_content_parts, queue, task, html, final_aggregated_results,
                   push_count,
                   failed_urls>>

\* except Exception as e: raise HTTPException(500)
start_crawl_except ==
    /\ pc = "raised"
    /\ response' = "error"
    /\ pc' = "done"
    /\ UNCHANGED <<live_vars, pure_vars>>
    /\ UNCHANGED <<start_urls, query, restrict_domain, max_pages, browser, seed_idx,
                   parent_url, local_visited, site_visited, site_children,
                   site_content_parts, queue, task, html, final_aggregated_results,
                   push_count, stored,
                   failed_urls>>

\* ---- autonomous_search and search_site: crawl, then rank_results ----

WordText(w) == IF w = 1 THEN <<"a">> ELSE <<"b">>

\* The spelling of URL u: it contains the words UrlWords(u).
UrlText(u) ==
    IF u % 4 = 2 THEN <<"a">> ELSE IF u % 4 = 3 THEN <<"a", "b">> ELSE <<"c">>

RECURSIVE QueryText(_)
QueryText(q) ==
    IF q = <<>> THEN <<>>
    ELSE IF Len(q) = 1 THEN WordText(q[1])
    ELSE WordText(Head(q)) \o <<" ">> \o QueryText(Tail(q))

\* "".join of the sections f"## Source: {url}\n\n...".
RECURSIVE merged_content(_)
merged_content(parts) ==
    IF parts = <<>> THEN <<>>
    ELSE <<"#", "#", " ">> \o UrlText(Head(parts)) \o <<"\n">> \o merged_content(Tail(parts))

\* The dictionary built for a parent: its keys as the code names them.
doc_dict(doc) ==
    [parentUrl |-> doc.parentUrl, childrenUrls |-> doc.childrenUrls,
     content |-> merged_content(doc.content), title |-> UrlText(doc.title)]

\* return await self.rank_results(results, query); the route turns an
\* exception into a 500 response.
rank_crawl ==
    /\ pc = "returned"
    /\ LET results == [i \in 1..Len(final_aggregated_results) |->
                          doc_dict(final_aggregated_results[i])]
           out == rank_results(results, QueryText(query))
       IN /\ r_results' = results
          /\ r_query' = QueryText(query)
          /\ r_out' = out
          /\ response' = IF out.status = "ok" THEN "success" ELSE "error"
    /\ r_pc' = "done"
    /\ pc' = "done"
    /\ UNCHANGED <<live_vars, md_vars, scrape_vars, bridge_vars>>
    /\ UNCHANGED <<start_urls, query, restrict_domain, max_pages, browser, seed_idx,
                   parent_url, local_visited, site_visited, site_children,
                   site_content_parts, queue, task, html, final_aggregated_results,
                   push_count, stored, failed_urls>>

\* results = await self.crawl(DEFAULT_SEEDS, query=query)
autonomous_search ==
    /\ ~restrict_domain
    /\ rank_crawl

\* results = await self.crawl(start_url, query=query, restrict_domain=True)
search_site ==
    /\ restrict_domain
    /\ Len(start_urls) = 1
    /\ rank_crawl

\* ---- rank_results on its own ----

NoRank == [status |-> "none", entries |-> <<>>]

TitleChars == {"A"}
ContentChars == {"a"}
QueryChars == {"A", "b", " "}

\* Candidates with the keys rank_results reads; the url of a candidate is
\* its position in the list.
CandidateLists ==
    UNION {[1..n -> [title : SeqsUpTo(TitleChars, MaxTitleLen),
                     content : SeqsUpTo(ContentChars, MaxContentLen)]] : n \in 0..MaxCands}

InitRank ==
    /\ \E cs \in CandidateLists :
         r_results = [i \in 1..Len(cs) |->
                         [url |-> i, title |-> cs[i].title, content |-> cs[i].content]]
    /\ r_query \in SeqsUpTo(QueryChars, MaxRankQueryLen)
    /\ r_pc = "call"
    /\ r_out = NoRank

IdleRank ==
    /\ r_results = <<>>
    /\ r_query = <<>>
    /\ r_pc = "idle"
    /\ r_out = NoRank

rank_call ==
    /\ r_pc = "call"
    /\ r_out' = rank_results(r_results, r_query)
    /\ r_pc' = "done"
    /\ UNCHANGED <<r_results, r_query>>
    /\ UNCHANGED <<crawl_vars, live_vars, md_vars, scrape_vars, bridge_vars>>

\* ---- html_to_markdown on its own ----

NoMd == [status |-> "none", text |-> <<>>]

\* The strings of a page: a word of up to MaxWordLen letters, or none,
\* between blanks.
Texts == {<<" ">> \o [i \in 1..k |-> "t"] \o <<" ">> : k \in 0..MaxWordLen}

RootedHref == [kind |-> "url", origin |-> "", rooted |-> TRUE, path |-> <<"x">>]
RelativeHref == [kind |-> "url", origin |-> "", rooted |-> FALSE, path |-> <<"y">>]
AbsoluteHref == [kind |-> "url", origin |-> "https://b.com", rooted |-> TRUE, path |-> <<"z">>]
MalformedHref == [kind |-> "bad", origin |-> "", rooted |-> FALSE, path |-> <<>>]
Hrefs == {NoHref, RootedHref, RelativeHref, AbsoluteHref, MalformedHref}
InnerHrefs == {NoHref, RootedHref, MalformedHref}

BaseUrls == {[origin |-> "https://a.com", path |-> <<>>],
             [origin |-> "https://a.com", path |-> <<"d", "p">>]}

\* name, heading level and href of the modelled tags
InnerShapes ==
    {<<"h", lv, NoHref>> : lv \in 1..MaxHeadingLevel}
        \cup {<<"a", 0, h>> : h \in InnerHrefs}
        \cup {<<n, 0, NoHref>> : n \in {"li", "nav", "main"}}

TopShapes ==
    {<<"h", lv, NoHref>> : lv \in 1..MaxHeadingLevel}
        \cup {<<"a", 0, h>> : h \in Hrefs}
        \cup {<<n, 0, NoHref>> : n \in {"div", "ul", "p", "strong"}}

\* A child: a string, a <br>, or a tag around one string.
Kids ==
    {Text(t) : t \in Texts}
        \cup {Tag("br", 0, NoHref, <<>>)}
        \cup {Tag(sh[1], sh[2], sh[3], <<Text(t)>>) : sh \in InnerShapes, t \in Texts}

\* Strings with line breaks inside, as markup indented over several lines
\* has them: three line breaks, two line breaks after a blank line, and a
\* blank before a line break.
Gaps == {<<"\n", "\n", "\n">>, <<"\n", " ", "\n", "\n">>, <<" ", "\n">>}
BrokenTexts == {<<"t">> \o g \o <<"t">> : g \in Gaps}

\* A parsed document: one element with up to MaxKids children.
Documents ==
    {Tag("[document]", 0, NoHref, <<Tag(sh[1], sh[2], sh[3], ks)>>) :
        sh \in TopShapes, ks \in SeqsUpTo(Kids, MaxKids)}

\* The children of a div may also be strings with line breaks inside.
InitMd ==
    /\ \/ md_html \in Documents
       \/ md_html \in {Tag("[document]", 0, NoHref, <<Tag("div", 0, NoHref, ks)>>) :
                          ks \in SeqsUpTo(Kids \cup {Text(t) : t \in BrokenTexts}, MaxKids)}
    /\ md_base \in BaseUrls
    /\ md_pc = "call"
    /\ md_out = NoMd

md_call ==
    /\ md_pc = "call"
    /\ md_out' = html_to_markdown(md_html, md_base)
    /\ md_pc' = "done"
    /\ UNCHANGED <<md_html, md_base>>
    /\ UNCHANGED <<crawl_vars, live_vars, rank_vars, scrape_vars, bridge_vars>>

\* ---- _sync_scrape_detailed ----
\* A Python value that is a string or None.

None == [present |-> FALSE, value |-> <<>>]
Str(v) == [present |-> TRUE, value |-> v]

\* Truth value of a string or None.
truthy(x) == x.present /\ x.value # <<>>

\* a or b
or(a, b) == IF truthy(a) THEN a ELSE b

\* " ".join(words)
RECURSIVE join_blank(_)
join_blank(words) ==
    IF words = <<>> THEN <<>>
    ELSE IF Len(words) = 1 THEN words[1]
    ELSE Head(words) \o <<" ">> \o join_blank(Tail(words))

\* extract_data: the title (the title element, else the first h1, else
\* "Untitled") and the text of the body with its whitespace collapsed.
extract_data(page) ==
    [title |-> IF truthy(page.title) THEN Str(strip(page.title.value))
               ELSE IF page.h1.present THEN Str(strip(page.h1.value))
               ELSE Str(<<"Untitled">>),
     text |-> Str(join_blank(split(page.body)))]

\* <meta> elements: their name, property, http-equiv and content attributes.
Meta(n, p, h, c) == [name |-> n, property |-> p, http_equiv |-> h, content |-> c]

MetaTags ==
    {Meta(Str(<<"D">>), None, None, Str(<<"d">>)),
     Meta(None, Str(<<"o">>), None, Str(<<"g">>)),
     Meta(None, None, Str(<<"r">>), Str(<<>>)),
     Meta(Str(<<"v">>), None, None, None),
     Meta(None, None, None, None)}

NoPage == [kind |-> "none", title |-> None, h1 |-> None, body |-> <<>>, metas |-> <<>>,
           bad_href |-> FALSE]

ScrapedPages ==
    {[kind |-> "page", title |-> t, h1 |-> h, body |-> b, metas |-> ms, bad_href |-> bad] :
        t \in {None, Str(<<"T">>)}, h \in {None, Str(<<"H">>)},
        b \in SeqsUpTo({"x", " "}, MaxBodyLen), ms \in SeqsUpTo(MetaTags, MaxMetas),
        bad \in BOOLEAN}

NoScrape == [kind |-> "none"]

InitScrape ==
    /\ sd_page \in ScrapedPages \cup {NoPage}
    /\ sd_pc = "launch"
    /\ sd_browser = "none"
    /\ sd_html = NoPage
    /\ sd_title = None
    /\ sd_content = None
    /\ sd_metadata = {}
    /\ sd_metas = <<>>
    /\ sd_out = NoScrape

IdleScrape ==
    /\ sd_page = NoPage
    /\ sd_pc = "idle"
    /\ sd_browser = "none"
    /\ sd_html = NoPage
    /\ sd_title = None
    /\ sd_content = None
    /\ sd_metadata = {}
    /\ sd_metas = <<>>
    /\ sd_out = NoScrape

\* p.chromium.launch, new_context, new_page
ScrapeLaunch ==
    /\ sd_pc = "launch"
    /\ \E ok \in BOOLEAN :
         IF ok THEN sd_browser' = "open" /\ sd_pc' = "fetch"
         ELSE sd_browser' = "none" /\ sd_pc' = "raised"
    /\ UNCHANGED <<sd_page, sd_html, sd_title, sd_content, sd_metadata, sd_metas, sd_out>>
    /\ UNCHANGED <<crawl_vars, live_vars, rank_vars, md_vars, bridge_vars>>

\* html = self._sync_fetch(page, url); if not html: browser.close(); return
\* {"error": ...}
ScrapeFetch ==
    /\ sd_pc = "fetch"
    /\ IF sd_page.kind = "page"
       THEN /\ sd_html' = sd_page
            /\ sd_pc' = "extract"
            /\ UNCHANGED <<sd_browser, sd_out>>
       ELSE /\ sd_browser' = "closed"
            /\ sd_out' = [kind |-> "error"]
            /\ sd_pc' = "done"
            /\ UNCHANGED sd_html
    /\ UNCHANGED <<sd_page, sd_title, sd_content, sd_metadata, sd_metas>>
    /\ UNCHANGED <<crawl_vars, live_vars, rank_vars, md_vars, bridge_vars>>

\* title, content = self.extract_data(html); markdown =
\* self.html_to_markdown(html, url), which raises on a malformed href;
\* meta_tags = soup.find_all("meta"); metadata_dict = {}
ScrapeExtract ==
    /\ sd_pc = "extract"
    /\ IF sd_html.bad_href
       THEN /\ sd_pc' = "raised"
            /\ UNCHANGED <<sd_title, sd_content, sd_metas>>
       ELSE /\ sd_title' = extract_data(sd_html).title
            /\ sd_content' = extract_data(sd_html).text
            /\ sd_metas' = sd_html.metas
            /\ sd_pc' = "metas"
    /\ UNCHANGED <<sd_page, sd_browser, sd_html, sd_metadata, sd_out>>
    /\ UNCHANGED <<crawl_vars, live_vars, rank_vars, md_vars, bridge_vars>>

\* metadata_dict[name.lower()] = content: the entry for the key replaced.
setitem(dict, key, val) == {e \in dict : e[1] # key} \cup {<<key, val>>}

\* One iteration of `for meta in meta_tags`:
\*   name = meta.get("name") or meta.get("property") or meta.get("http-equiv")
\*   content = meta.get("content")
\*   if name and content: metadata_dict[name.lower()] = content
ScrapeMeta ==
    /\ sd_pc = "metas"
    /\ sd_metas # <<>>
    /\ LET meta == Head(sd_metas)
           name == or(or(meta.name, meta.property), meta.http_equiv)
           content == meta.content
       IN /\ sd_content' = content
          /\ sd_metadata' = IF truthy(name) /\ truthy(content)
                             THEN setitem(sd_metadata, lower(name.value), content.value)
                             ELSE sd_metadata
    /\ sd_metas' = Tail(sd_metas)
    /\ UNCHANGED <<sd_page, sd_pc, sd_browser, sd_html, sd_title, sd_out>>
    /\ UNCHANGED <<crawl_vars, live_vars, rank_vars, md_vars, bridge_vars>>

\* After the loop: the metadata fields, images and links, browser.close(),
\* json_data = {"title": title, "content": content, ..., "metadata":
\* metadata_dict} and the returned dictionary.
ScrapeBuild ==
    /\ sd_pc = "metas"
    /\ sd_metas = <<>>
    /\ sd_browser' = "closed"
    /\ sd_out' = [kind |-> "data",
                  json |-> [title |-> sd_title, content |-> sd_content,
                            metadata |-> sd_metadata]]
    /\ sd_pc' = "done"
    /\ UNCHANGED <<sd_page, sd_html, sd_title, sd_content, sd_metadata, sd_metas>>
    /\ UNCHANGED <<crawl_vars, live_vars, rank_vars, md_vars, bridge_vars>>

NextScrape ==
    \/ ScrapeLaunch
    \/ ScrapeFetch
    \/ ScrapeExtract
    \/ ScrapeMeta
    \/ ScrapeBuild

\* ---- the async callers of the blocking workers ----
\* Requests are served by coroutines on the event-loop thread; a coroutine
\* is a stack of calls.  asyncio.to_thread hands a function to a pool
\* thread and suspends the coroutine until the function has returned.

Requests == 1..MaxRequests
Threads == 1..MaxThreads

BlockingWorkers == {"_sync_crawl_worker", "_sync_scrape_detailed"}

handler_of(route) ==
    CASE route = "crawl" -> "start_crawl"
      [] route = "scrape" -> "scrape_page"
      [] OTHER -> "site_search"

\* What the handler awaits first.
callee_of(route) ==
    CASE route = "scrape" -> "Crawler.scrape_detailed"
      [] route = "auto" -> "Crawler.autonomous_search"
      [] OTHER -> "Crawler.crawl"

NoJob == [req |-> 0, fn |-> ""]

InitBridge ==
    \* /crawl, /scrape, /search/site with a url and /search/site without one
    /\ br_route \in [Requests -> {"crawl", "scrape", "site", "auto"}]
    /\ br_stack = [r \in Requests |-> <<>>]
    /\ br_state = [r \in Requests |-> "new"]
    /\ br_loop = 0
    /\ br_jobs = <<>>
    /\ br_pool = [t \in Threads |-> NoJob]

IdleBridge ==
    /\ br_route = <<>>
    /\ br_stack = <<>>
    /\ br_state = <<>>
    /\ br_loop = 0
    /\ br_jobs = <<>>
    /\ br_pool = <<>>

\* The loop starts the handler of a request.
LoopAccept ==
    /\ br_loop = 0
    /\ \E r \in Requests :
         /\ br_state[r] = "new"
         /\ br_loop' = r
         /\ br_stack' = [br_stack EXCEPT ![r] = <<handler_of(br_route[r])>>]
         /\ br_state' = [br_state EXCEPT ![r] = "running"]
    /\ UNCHANGED <<br_route, br_jobs, br_pool>>
    /\ UNCHANGED <<crawl_vars, live_vars, rank_vars, md_vars, scrape_vars>>

\* await crawler.crawl(...), await crawler.scrape_detailed(...) or
\* await crawler.autonomous_search(q) in a route handler.
HandlerCall ==
    /\ br_loop # 0
    /\ br_state[br_loop] = "running"
    /\ Len(br_stack[br_loop]) = 1
    /\ br_stack' = [br_stack EXCEPT ![br_loop] = Append(@, callee_of(br_route[br_loop]))]
    /\ UNCHANGED <<br_route, br_state, br_loop, br_jobs, br_pool>>
    /\ UNCHANGED <<crawl_vars, live_vars, rank_vars, md_vars, scrape_vars>>

\* results = await self.crawl(DEFAULT_SEEDS, query=query)
AutonomousCallsCrawl ==
    /\ br_loop # 0
    /\ br_state[br_loop] = "running"
    /\ br_stack[br_loop][Len(br_stack[br_loop])] = "Crawler.autonomous_search"
    /\ br_stack' = [br_stack EXCEPT ![br_loop] = Append(@, "Crawler.crawl")]
    /\ UNCHANGED <<br_route, br_state, br_loop, br_jobs, br_pool>>
    /\ UNCHANGED <<crawl_vars, live_vars, rank_vars, md_vars, scrape_vars>>

crawl_MutRunsInline ==
    /\ br_loop # 0
    /\ br_state[br_loop] = "running"
    /\ br_stack[br_loop][Len(br_stack[br_loop])] = "Crawler.crawl"
    /\ br_stack' = [br_stack EXCEPT ![br_loop] = Append(@, "_sync_crawl_worker")]
    /\ UNCHANGED <<br_route, br_state, br_loop, br_jobs, br_pool>>
    /\ UNCHANGED <<crawl_vars, live_vars, rank_vars, md_vars, scrape_vars>>

\* return await asyncio.to_thread(self._sync_crawl_worker, ...)
crawl ==
    /\ br_loop # 0
    /\ br_state[br_loop] = "running"
    /\ br_stack[br_loop][Len(br_stack[br_loop])] = "Crawler.crawl"
    /\ br_jobs' = Append(br_jobs, [req |-> br_loop, fn |-> "_sync_crawl_worker"])
    /\ br_state' = [br_state EXCEPT ![br_loop] = "awaiting"]
    /\ br_loop' = 0
    /\ UNCHANGED <<br_route, br_stack, br_pool>>
    /\ UNCHANGED <<crawl_vars, live_vars, rank_vars, md_vars, scrape_vars>>

\* return await asyncio.to_thread(self._sync_scrape_detailed, url)
scrape_detailed ==
    /\ br_loop # 0
    /\ br_state[br_loop] = "running"
    /\ br_stack[br_loop][Len(br_stack[br_loop])] = "Crawler.scrape_detailed"
    /\ br_jobs' = Append(br_jobs, [req |-> br_loop, fn |-> "_sync_scrape_detailed"])
    /\ br_state' = [br_state EXCEPT ![br_loop] = "awaiting"]
    /\ br_loop' = 0
    /\ UNCHANGED <<br_route, br_stack, br_pool>>
    /\ UNCHANGED <<crawl_vars, live_vars, rank_vars, md_vars, scrape_vars>>

\* A free pool thread takes the oldest submitted job and runs it.
PoolStart ==
    /\ br_jobs # <<>>
    /\ \E t \in Threads :
         /\ br_pool[t] = NoJob
         /\ br_pool' = [br_pool EXCEPT ![t] = Head(br_jobs)]
    /\ br_jobs' = Tail(br_jobs)
    /\ UNCHANGED <<br_route, br_stack, br_state, br_loop>>
    /\ UNCHANGED <<crawl_vars, live_vars, rank_vars, md_vars, scrape_vars>>

\* The function returns or raises on its thread; the awaiting coroutine
\* becomes ready.
PoolFinish ==
    /\ \E t \in Threads :
         /\ br_pool[t] # NoJob
         /\ br_state' = [br_state EXCEPT ![br_pool[t].req] = "ready"]
         /\ br_pool' = [br_pool EXCEPT ![t] = NoJob]
    /\ UNCHANGED <<br_route, br_stack, br_loop, br_jobs>>
    /\ UNCHANGED <<crawl_vars, live_vars, rank_vars, md_vars, scrape_vars>>

\* The loop resumes a ready coroutine: the await returns up to the handler.
LoopResume ==
    /\ br_loop = 0
    /\ \E r \in Requests :
         /\ br_state[r] = "ready"
         /\ br_loop' = r
         /\ br_stack' = [br_stack EXCEPT ![r] = <<handler_of(br_route[r])>>]
         /\ br_state' = [br_state EXCEPT ![r] = "resumed"]
    /\ UNCHANGED <<br_route, br_jobs, br_pool>>
    /\ UNCHANGED <<crawl_vars, live_vars, rank_vars, md_vars, scrape_vars>>

\* The handler returns its response (or raises HTTPException).
HandlerReturn ==
    /\ br_loop # 0
    /\ br_state[br_loop] = "resumed"
    /\ br_stack' = [br_stack EXCEPT ![br_loop] = <<>>]
    /\ br_state' = [br_state EXCEPT ![br_loop] = "done"]
    /\ br_loop' = 0
    /\ UNCHANGED <<br_route, br_jobs, br_pool>>
    /\ UNCHANGED <<crawl_vars, live_vars, rank_vars, md_vars, scrape_vars>>

NextBridge ==
    \/ LoopAccept
    \/ HandlerCall
    \/ AutonomousCallsCrawl
    \/ crawl
    \/ scrape_detailed
    \/ PoolStart
    \/ PoolFinish
    \/ LoopResume
    \/ HandlerReturn

\* ---- the live session (/ws/smartsearch) ----

InitLive ==
    /\ connected = TRUE
    /\ request = "none"
    /\ h_pc = "receive"
    /\ result_future = "none"
    /\ future_sets = 0
    /\ main_q = <<>>
    /\ sent = <<>>
    /\ s_pc = "idle"
    /\ live_browser = "none"
    /\ scraper_exc = FALSE
    /\ remaining = 0
    /\ scraped_results = 0
    /\ hb_pc = "none"
    /\ stop_heartbeat = FALSE
    /\ beats = 0
    /\ gone_visits = 0
    /\ gone_beats = 0

\* The client goes away; nothing in the handler is told.
ClientDisconnect ==
    /\ connected
    /\ h_pc # "done"
    /\ connected' = FALSE
    /\ UNCHANGED <<request, h_pc, result_future, future_sets, main_q, sent, s_pc,
                   live_browser, scraper_exc, remaining, scraped_results, hb_pc,
                   stop_heartbeat, beats,
                   gone_visits, gone_beats>>
    /\ UNCHANGED <<crawl_vars, pure_vars>>

\* send_json_safe: websocket.send_json, every exception swallowed.
send_json_safe(events, type) == IF connected THEN Append(events, type) ELSE events

\* receive_text / json.loads / request_data.get("url"): a query starts the
\* worker thread on a fresh future; a missing query or malformed JSON leads
\* to an error event; a closed socket raises WebSocketDisconnect.
HandlerReceive ==
    /\ h_pc = "receive"
    /\ IF connected
       THEN \E r \in {"query", "missing", "malformed"} :
              /\ request' = r
              /\ IF r = "query"
                 THEN /\ result_future' = "pending"
                      /\ s_pc' = "launch"
                      /\ h_pc' = "await_future"
                 ELSE /\ h_pc' = "send_error"
                      /\ UNCHANGED <<result_future, s_pc>>
       ELSE /\ h_pc' = "done"
            /\ UNCHANGED <<request, result_future, s_pc>>
    /\ UNCHANGED <<connected, future_sets, main_q, sent, live_browser, scraper_exc,
                   remaining, scraped_results, hb_pc, stop_heartbeat, beats,
                   gone_visits, gone_beats>>
    /\ UNCHANGED <<crawl_vars, pure_vars>>

HandlerSendError_MutSilent ==
    /\ h_pc = "send_error"
    /\ h_pc' = "done"
    /\ UNCHANGED <<connected, request, result_future, future_sets, main_q, sent, s_pc,
                   live_browser, scraper_exc, remaining, scraped_results, hb_pc,
                   stop_heartbeat, beats,
                   gone_visits, gone_beats>>
    /\ UNCHANGED <<crawl_vars, pure_vars>>

\* await send_json_safe({"type": "error", ...})
HandlerSendError ==
    /\ h_pc = "send_error"
    /\ sent' = send_json_safe(sent, "error")
    /\ h_pc' = "done"
    /\ UNCHANGED <<connected, request, result_future, future_sets, main_q, s_pc,
                   live_browser, scraper_exc, remaining, scraped_results, hb_pc,
                   stop_heartbeat, beats,
                   gone_visits, gone_beats>>
    /\ UNCHANGED <<crawl_vars, pure_vars>>

\* The request-serving loop runs the callback that run_coroutine_threadsafe
\* queued: it wraps the send coroutine in a task, which runs on a later turn.
RunFrameCallback ==
    /\ main_q # <<>>
    /\ Head(main_q) = "frame_cb"
    /\ main_q' = Append(Tail(main_q), "frame_send")
    /\ UNCHANGED <<connected, request, h_pc, result_future, future_sets, sent, s_pc,
                   live_browser, scraper_exc, remaining, scraped_results, hb_pc,
                   stop_heartbeat, beats,
                   gone_visits, gone_beats>>
    /\ UNCHANGED <<crawl_vars, pure_vars>>

\* send_json_safe({"type": "live_frame", ...}) on the request-serving loop.
RunFrameSend ==
    /\ main_q # <<>>
    /\ Head(main_q) = "frame_send"
    /\ main_q' = Tail(main_q)
    /\ sent' = send_json_safe(sent, "live_frame")
    /\ UNCHANGED <<connected, request, h_pc, result_future, future_sets, s_pc,
                   live_browser, scraper_exc, remaining, scraped_results, hb_pc,
                   stop_heartbeat, beats,
                   gone_visits, gone_beats>>
    /\ UNCHANGED <<crawl_vars, pure_vars>>

\* result_future.set_result / set_exception, run by call_soon_threadsafe:
\* a pending future is completed and its waiter scheduled.
RunSetFuture ==
    /\ main_q # <<>>
    /\ Head(main_q) \in {"set_result", "set_exception"}
    /\ future_sets' = future_sets + 1
    /\ IF result_future = "pending"
       THEN /\ result_future' = IF Head(main_q) = "set_result" THEN "result" ELSE "exception"
            /\ main_q' = Append(Tail(main_q), "wake")
       ELSE /\ main_q' = Tail(main_q)
            /\ UNCHANGED result_future
    /\ UNCHANGED <<connected, request, h_pc, sent, s_pc, live_browser, scraper_exc,
                   remaining, scraped_results, hb_pc, stop_heartbeat, beats,
                   gone_visits, gone_beats>>
    /\ UNCHANGED <<crawl_vars, pure_vars>>

\* The handler resumes from `await result_future` (the result, or the
\* worker's exception raised into `except Exception`) or from
\* `await asyncio.to_thread(generate_answer, ...)`.
WakeHandler ==
    /\ main_q # <<>>
    /\ Head(main_q) = "wake"
    /\ main_q' = Tail(main_q)
    /\ h_pc' = CASE h_pc = "await_future" /\ result_future = "result" -> "generate"
                 [] h_pc = "await_future" /\ result_future = "exception" -> "send_error"
                 [] h_pc = "await_answer" -> "send_results"
                 [] OTHER -> h_pc
    /\ UNCHANGED <<connected, request, result_future, future_sets, sent, s_pc,
                   live_browser, scraper_exc, remaining, scraped_results, hb_pc,
                   stop_heartbeat, beats,
                   gone_visits, gone_beats>>
    /\ UNCHANGED <<crawl_vars, pure_vars>>

\* generate_answer runs in a pool thread (it catches its own errors); its
\* completion is queued on the request-serving loop.
GenerateAnswer ==
    /\ h_pc = "generate"
    /\ h_pc' = "await_answer"
    /\ main_q' = Append(main_q, "wake")
    /\ UNCHANGED <<connected, request, result_future, future_sets, sent, s_pc,
                   live_browser, scraper_exc, remaining, scraped_results, hb_pc,
                   stop_heartbeat, beats,
                   gone_visits, gone_beats>>
    /\ UNCHANGED <<crawl_vars, pure_vars>>

\* await send_json_safe({"type": "results", ..., "done": True})
HandlerSendResults ==
    /\ h_pc = "send_results"
    /\ sent' = send_json_safe(sent, "results")
    /\ h_pc' = "done"
    /\ UNCHANGED <<connected, request, result_future, future_sets, main_q, s_pc,
                   live_browser, scraper_exc, remaining, scraped_results, hb_pc,
                   stop_heartbeat, beats,
                   gone_visits, gone_beats>>
    /\ UNCHANGED <<crawl_vars, pure_vars>>

\* -- run_async_scraper on the worker thread's loop --

\* p.chromium.launch
ScraperLaunch ==
    /\ s_pc = "launch"
    /\ \E ok \in BOOLEAN :
         IF ok THEN live_browser' = "open" /\ s_pc' = "new_page"
         ELSE s_pc' = "raised" /\ UNCHANGED live_browser
    /\ UNCHANGED <<connected, request, h_pc, result_future, future_sets, main_q, sent,
                   scraper_exc, remaining, scraped_results, hb_pc, stop_heartbeat, beats,
                   gone_visits, gone_beats>>
    /\ UNCHANGED <<crawl_vars, pure_vars>>

\* browser.new_context, context.new_page, then create_task(heartbeat_async);
\* a failure here is outside the try/finally.
ScraperNewPage ==
    /\ s_pc = "new_page"
    /\ \E ok \in BOOLEAN :
         IF ok THEN hb_pc' = "check" /\ s_pc' = "search"
         ELSE s_pc' = "raised" /\ UNCHANGED hb_pc
    /\ UNCHANGED <<connected, request, h_pc, result_future, future_sets, main_q, sent,
                   live_browser, scraper_exc, remaining, scraped_results,
                   stop_heartbeat, beats,
                   gone_visits, gone_beats>>
    /\ UNCHANGED <<crawl_vars, pure_vars>>

\* The search page and the result links (urlList[:3]); an exception of these
\* steps goes to the finally clause.
ScraperSearch ==
    /\ s_pc = "search"
    /\ \/ \E n \in 0..MaxResults :
            /\ remaining' = n
            /\ s_pc' = "visit"
            /\ UNCHANGED scraper_exc
       \/ /\ scraper_exc' = TRUE
          /\ s_pc' = "closing"
          /\ UNCHANGED remaining
    /\ UNCHANGED <<connected, request, h_pc, result_future, future_sets, main_q, sent,
                   live_browser, scraped_results, hb_pc, stop_heartbeat, beats,
                   gone_visits, gone_beats>>
    /\ UNCHANGED <<crawl_vars, pure_vars>>

\* One result page: appended to scraped_results, or its exception printed.
ScraperVisit ==
    /\ s_pc = "visit"
    /\ remaining > 0
    /\ remaining' = remaining - 1
    /\ \E ok \in BOOLEAN :
         scraped_results' = IF ok THEN scraped_results + 1 ELSE scraped_results
    /\ gone_visits' = IF connected THEN gone_visits ELSE gone_visits + 1
    /\ UNCHANGED <<connected, request, h_pc, result_future, future_sets, main_q, sent,
                   s_pc, live_browser, scraper_exc, hb_pc, stop_heartbeat, beats, gone_beats>>
    /\ UNCHANGED <<crawl_vars, pure_vars>>

\* stop_heartbeat.set(); await h_task
ScraperStop ==
    /\ s_pc = "visit"
    /\ remaining = 0
    /\ stop_heartbeat' = TRUE
    /\ s_pc' = "join"
    /\ UNCHANGED <<connected, request, h_pc, result_future, future_sets, main_q, sent,
                   live_browser, scraper_exc, remaining, scraped_results, hb_pc, beats,
                   gone_visits, gone_beats>>
    /\ UNCHANGED <<crawl_vars, pure_vars>>

\* h_task is done: return scraped_results, through the finally clause.
ScraperJoin ==
    /\ s_pc = "join"
    /\ hb_pc = "done"
    /\ s_pc' = "closing"
    /\ UNCHANGED <<connected, request, h_pc, result_future, future_sets, main_q, sent,
                   live_browser, scraper_exc, remaining, scraped_results, hb_pc,
                   stop_heartbeat, beats,
                   gone_visits, gone_beats>>
    /\ UNCHANGED <<crawl_vars, pure_vars>>

\* finally: await browser.close(); then the return value or the exception
\* (that of the try block, or one raised by close itself).
ScraperClose ==
    /\ s_pc = "closing"
    /\ live_browser' = "closed"
    /\ \E close_ok \in BOOLEAN :
         s_pc' = IF scraper_exc \/ ~close_ok THEN "raised" ELSE "returned"
    /\ UNCHANGED <<connected, request, h_pc, result_future, future_sets, main_q, sent,
                   scraper_exc, remaining, scraped_results, hb_pc, stop_heartbeat, beats,
                   gone_visits, gone_beats>>
    /\ UNCHANGED <<crawl_vars, pure_vars>>

thread_worker_MutSetsAhead ==
    /\ s_pc \in {"returned", "raised"}
    /\ main_q' = <<IF s_pc = "returned" THEN "set_result" ELSE "set_exception">> \o main_q
    /\ s_pc' = "finished"
    /\ UNCHANGED <<connected, request, h_pc, result_future, future_sets, sent,
                   live_browser, scraper_exc, remaining, scraped_results, hb_pc,
                   stop_heartbeat, beats,
                   gone_visits, gone_beats>>
    /\ UNCHANGED <<crawl_vars, pure_vars>>

thread_worker_MutSetsBoth ==
    /\ s_pc \in {"returned", "raised"}
    /\ main_q' = main_q \o <<"set_result", "set_exception">>
    /\ s_pc' = "finished"
    /\ UNCHANGED <<connected, request, h_pc, result_future, future_sets, sent,
                   live_browser, scraper_exc, remaining, scraped_results, hb_pc,
                   stop_heartbeat, beats,
                   gone_visits, gone_beats>>
    /\ UNCHANGED <<crawl_vars, pure_vars>>

thread_worker_MutSwallows ==
    /\ s_pc \in {"returned", "raised"}
    /\ main_q' = Append(main_q, "set_result")
    /\ s_pc' = "finished"
    /\ UNCHANGED <<connected, request, h_pc, result_future, future_sets, sent,
                   live_browser, scraper_exc, remaining, scraped_results, hb_pc,
                   stop_heartbeat, beats,
                   gone_visits, gone_beats>>
    /\ UNCHANGED <<crawl_vars, pure_vars>>

\* run_until_complete is over: call_soon_threadsafe(set_result) after a
\* return, call_soon_threadsafe(set_exception) after an exception.
thread_worker ==
    /\ s_pc \in {"returned", "raised"}
    /\ main_q' = Append(main_q, IF s_pc = "returned" THEN "set_result" ELSE "set_exception")
    /\ s_pc' = "finished"
    /\ UNCHANGED <<connected, request, h_pc, result_future, future_sets, sent,
                   live_browser, scraper_exc, remaining, scraped_results, hb_pc,
                   stop_heartbeat, beats,
                   gone_visits, gone_beats>>
    /\ UNCHANGED <<crawl_vars, pure_vars>>

\* -- heartbeat_async: a task of the worker's loop, which runs only while
\* run_until_complete(run_async_scraper) is waiting --

LoopRunning == s_pc \in {"search", "visit", "join", "closing"}

\* while not stop_heartbeat.is_set()
HeartbeatCheck ==
    /\ hb_pc = "check"
    /\ LoopRunning
    /\ IF stop_heartbeat
       THEN hb_pc' = "done" /\ UNCHANGED beats
       ELSE beats < MaxBeats /\ hb_pc' = "screenshot" /\ beats' = beats + 1
    /\ gone_beats' = IF connected \/ stop_heartbeat THEN gone_beats ELSE gone_beats + 1
    /\ UNCHANGED <<connected, request, h_pc, result_future, future_sets, main_q, sent,
                   s_pc, live_browser, scraper_exc, remaining, scraped_results,
                   stop_heartbeat, gone_visits>>
    /\ UNCHANGED <<crawl_vars, pure_vars>>

\* screenshot = await page_obj.screenshot(), then the frame is handed to the
\* request-serving loop; any exception is passed over.
HeartbeatFrame ==
    /\ hb_pc = "screenshot"
    /\ LoopRunning
    /\ \/ /\ live_browser = "open"
          /\ main_q' = Append(main_q, "frame_cb")
       \/ UNCHANGED main_q
    /\ hb_pc' = "sleep"
    /\ UNCHANGED <<connected, request, h_pc, result_future, future_sets, sent, s_pc,
                   live_browser, scraper_exc, remaining, scraped_results,
                   stop_heartbeat, beats,
                   gone_visits, gone_beats>>
    /\ UNCHANGED <<crawl_vars, pure_vars>>

\* await asyncio.sleep(0.1)
HeartbeatSleep ==
    /\ hb_pc = "sleep"
    /\ LoopRunning
    /\ hb_pc' = "check"
    /\ UNCHANGED <<connected, request, h_pc, result_future, future_sets, main_q, sent,
                   s_pc, live_browser, scraper_exc, remaining, scraped_results,
                   stop_heartbeat, beats,
                   gone_visits, gone_beats>>
    /\ UNCHANGED <<crawl_vars, pure_vars>>

NextLive ==
    \/ ClientDisconnect
    \/ HandlerReceive
    \/ HandlerSendError
    \/ RunFrameCallback
    \/ RunFrameSend
    \/ RunSetFuture
    \/ WakeHandler
    \/ GenerateAnswer
    \/ HandlerSendResults
    \/ ScraperLaunch
    \/ ScraperNewPage
    \/ ScraperSearch
    \/ ScraperVisit
    \/ ScraperStop
    \/ ScraperJoin
    \/ ScraperClose
    \/ thread_worker
    \/ HeartbeatCheck
    \/ HeartbeatFrame
    \/ HeartbeatSleep

\* No crawl request is in progress in a live session.
IdleCrawl ==
    /\ start_urls = <<>>
    /\ max_pages = 0
    /\ query = <<>>
    /\ restrict_domain = FALSE
    /\ pc = "idle"
    /\ browser = "none"
    /\ seed_idx = 1
    /\ parent_url = NonHttp
    /\ local_visited = {}
    /\ site_visited = {}
    /\ site_children = <<>>
    /\ site_content_parts = <<>>
    /\ queue = <<>>
    /\ task = NoTask
    /\ html = NoHtml
    /\ final_aggregated_results = <<>>
    /\ push_count = 0
    /\ stored = {}
    /\ response = "none"
    /\ failed_urls = {}

NextCrawl ==
    \/ Launch
    \/ NextSeed
    \/ Pop
    \/ Fetch
    \/ SkipFailed
    \/ ProcessPage
    \/ ProcessRaises
    \/ FinishSeed
    \/ Return
    \/ start_crawl_index
    \/ start_crawl_except
    \/ autonomous_search
    \/ search_site

vars == <<crawl_vars, live_vars, pure_vars>>

IdleMd ==
    /\ md_html = Tag("[document]", 0, NoHref, <<>>)
    /\ md_base = [origin |-> "", path |-> <<>>]
    /\ md_pc = "idle"
    /\ md_out = NoMd

Init == InitCrawl /\ InitLive /\ IdleRank /\ IdleMd /\ IdleScrape /\ IdleBridge

Next == NextCrawl

Spec == Init /\ [][Next]_vars

LiveInit == IdleCrawl /\ InitLive /\ IdleRank /\ IdleMd /\ IdleScrape /\ IdleBridge

LiveSpec == LiveInit /\ [][NextLive]_vars

RankInit == IdleCrawl /\ InitLive /\ InitRank /\ IdleMd /\ IdleScrape /\ IdleBridge

NextRank == rank_call

RankSpec == RankInit /\ [][NextRank]_vars

MdInit == IdleCrawl /\ InitLive /\ IdleRank /\ InitMd /\ IdleScrape /\ IdleBridge

ScrapeInit == IdleCrawl /\ InitLive /\ IdleRank /\ IdleMd /\ InitScrape /\ IdleBridge

ScrapeSpec == ScrapeInit /\ [][NextScrape]_vars

BridgeInit == IdleCrawl /\ InitLive /\ IdleRank /\ IdleMd /\ IdleScrape /\ InitBridge

BridgeSpec == BridgeInit /\ [][NextBridge]_vars

NextMd == md_call

MdSpec == MdInit /\ [][NextMd]_vars

\* ---- properties of the crawl loop ----

NoDup(s) == \A i, j \in 1..Len(s) : s[i] = s[j] => i = j

RECURSIVE ConcatContents(_)
ConcatContents(docs) ==
    IF docs = <<>> THEN <<>> ELSE Head(docs).content \o ConcatContents(Tail(docs))

\* The sections gathered in this session, in fetch order: those of the
\* finished parents and those of the parent being crawled.
SessionSections ==
    ConcatContents(final_aggregated_results)
        \o (IF pc \in {"loop", "fetch", "got", "raised"} THEN site_content_parts ELSE <<>>)

\* C1: under one seed the visited set never exceeds max_pages and no URL is
\* fetched twice; with max_pages = 1 a fetched seed ends with exactly one
\* visited URL however many links it has.
C1_VisitedWithinBudget ==
    /\ Cardinality(site_visited) <= max_pages
    /\ NoDup(site_content_parts)
    /\ (max_pages = 1 /\ pc \in {"seed", "returned", "done"} /\ site_content_parts # <<>>)
           => Cardinality(site_visited) = 1

\* A seed crawled with max_pages = 1 has ended with one visited URL while a
\* link of it is still pending.
C1_Witness ==
    /\ max_pages = 1
    /\ pc = "seed"
    /\ Cardinality(site_visited) = 1
    /\ queue # <<>>

\* C2: over one crawl() call with several seeds at most max_pages pages are
\* fetched in total and no URL is fetched under more than one seed.
C2_SessionBudget ==
    /\ Len(SessionSections) <= max_pages
    /\ NoDup(SessionSections)

\* C3: with restrict_domain every fetched URL other than the seed has the
\* seed's registrable domain, whatever the seed (an IP address included).
C3_DomainRestricted ==
    restrict_domain =>
        \A u \in site_visited \ {parent_url} :
            pc \in {"loop", "fetch", "got"} =>
                registered_domain(u) = registered_domain(parent_url)

\* C4: a pop removes a task of the highest pending score and, among the
\* pending tasks of that score, the one pushed first.
C4_PopOrder ==
    [][(pc = "loop" /\ Len(queue') < Len(queue)) =>
           /\ \E i \in 1..Len(queue) : queue[i] = task'
           /\ \A i \in 1..Len(queue) :
                /\ queue[i].score <= task'.score
                /\ queue[i].score = task'.score => queue[i].seq >= task'.seq]_vars

\* A task was popped ahead of a pending task of the same score pushed later,
\* and of a pending task of lower score pushed earlier.
C4_Witness ==
    /\ pc = "fetch"
    /\ \E i \in 1..Len(queue) : queue[i].score = task.score /\ queue[i].seq > task.seq
    /\ \E i \in 1..Len(queue) : queue[i].score < task.score /\ queue[i].seq < task.seq

\* C5: childrenUrls of an aggregate document never contains its seed URL.
C5_SeedNotChild ==
    /\ \A i \in 1..Len(final_aggregated_results) :
         /\ final_aggregated_results[i].parentUrl
                \notin SeqRange(final_aggregated_results[i].childrenUrls)
         /\ \A k \in 1..Len(start_urls) :
                normalize_url(start_urls[k]) = final_aggregated_results[i].parentUrl
                    => start_urls[k] \notin SeqRange(final_aggregated_results[i].childrenUrls)
    /\ pc \in {"loop", "fetch", "got"} => parent_url \notin SeqRange(site_children)

\* A child page that links back to the seed has been fetched.
C5_Witness ==
    /\ pc = "got"
    /\ html.kind = "page"
    /\ task.url # parent_url
    /\ parent_url \in SeqRange(html.links)
    /\ site_children # <<>>

\* C6: a failed fetch (None or an empty page) leaves the visited set, the
\* children and the content as they were, and the loop goes on: the worker
\* neither raises nor returns on it.
C6_FailedFetchSkipped ==
    [][(pc = "got" /\ html.kind # "page") =>
           /\ site_visited' = site_visited
           /\ site_children' = site_children
           /\ site_content_parts' = site_content_parts
           /\ queue' = queue
           /\ final_aggregated_results' = final_aggregated_results
           /\ browser' = "open"
           /\ pc' = "loop"]_vars

\* In the middle of a parent's crawl the task popped last was skipped (its
\* fetch failed) and tasks are still pending.
C6_Witness ==
    /\ pc = "loop"
    /\ site_content_parts # <<>>
    /\ task.url \notin site_visited
    /\ queue # <<>>
    /\ Cardinality(site_visited) < max_pages

\* C7: when the request ends, every page gathered in the session has been
\* stored (the /crawl route returns only a count), failure or not.
C7_PartialResultsKept ==
    pc = "done" =>
        \A u \in SeqRange(SessionSections) :
            \E d \in stored : u \in SeqRange(d.content)

\* ---- properties of the live session ----

CountOf(events, types) == Cardinality({i \in 1..Len(events) : events[i] \in types})

\* C8: the worker sets the future once, with either the result or the
\* failure, and the handler leaves `await result_future` only after that.
C8_FutureSetOnce ==
    /\ future_sets <= 1
    /\ h_pc \in {"generate", "await_answer", "send_results"} => result_future = "result"
    /\ (request = "query" /\ h_pc \in {"send_error", "done"})
           => result_future \in {"result", "exception"}
    /\ (s_pc = "finished" /\ \A i \in 1..Len(main_q) :
                                 main_q[i] \notin {"set_result", "set_exception"})
           => (future_sets = 1 /\ result_future \in {"result", "exception"})
    /\ result_future = "exception" => s_pc = "finished"
    /\ result_future = "result" => (s_pc = "finished" /\ ~scraper_exc)

\* The handler has resumed from its await with the worker's failure.
C8_Witness ==
    /\ request = "query"
    /\ h_pc = "send_error"
    /\ result_future = "exception"
    /\ future_sets = 1

\* C9: once stop_heartbeat is set the number of live_frame events sent no
\* longer grows.
C9_NoFrameAfterStop ==
    [][stop_heartbeat =>
           CountOf(sent', {"live_frame"}) = CountOf(sent, {"live_frame"})]_vars

\* C10 as stated: a session that received a request ends with exactly one
\* terminal event, whatever happened (a client disconnect included).
C10_ExactlyOneTerminal ==
    /\ CountOf(sent, {"results", "error"}) <= 1
    /\ (request # "none" /\ h_pc = "done") => CountOf(sent, {"results", "error"}) = 1

\* C10 amended: never more than one terminal event, and exactly one when the
\* handler ends with the client still connected.
C10_OneTerminalWhileConnected ==
    /\ CountOf(sent, {"results", "error"}) <= 1
    /\ (request # "none" /\ h_pc = "done" /\ connected)
           => CountOf(sent, {"results", "error"}) = 1
    /\ (sent # <<>> /\ sent[Len(sent)] # "live_frame") => h_pc = "done"

\* A session with a query has ended on a connected client after a frame and
\* a worker failure.
C10_Witness ==
    /\ request = "query"
    /\ h_pc = "done"
    /\ connected
    /\ result_future = "exception"
    /\ CountOf(sent, {"live_frame"}) >= 1

C12_OneDocPerSeed ==
    pc = "returned" =>
        /\ Len(final_aggregated_results) = Len(start_urls)
        /\ \A i \in 1..Len(start_urls) :
               i <= Len(final_aggregated_results)
                   => final_aggregated_results[i].parentUrl = normalize_url(start_urls[i])

\* The fetched URLs of a sequence of sections other than the seed p, in order.
NonSeed(parts, p) == LET keep(u) == u # p IN SelectSeq(parts, keep)

\* C13: a document's content is one section per fetched URL in fetch order,
\* its childrenUrls the fetched URLs other than the seed, in fetch order and
\* without duplicates; a single seed without outbound links yields exactly
\* one document with childrenUrls = [], whatever the page budget.
C13_AggregateShape ==
    /\ [](\A i \in 1..Len(final_aggregated_results) :
             LET doc == final_aggregated_results[i]
             IN /\ NoDup(doc.content)
                /\ doc.childrenUrls = NonSeed(doc.content, doc.parentUrl))
    /\ []((pc \in {"loop", "fetch", "got"}) =>
             /\ SeqRange(site_content_parts) = site_visited
             /\ Len(site_content_parts) = Cardinality(site_visited)
             /\ site_children = NonSeed(site_content_parts, parent_url))
    /\ [][(pc = "got" /\ site_visited' # site_visited /\ pc' = "loop") =>
              /\ site_content_parts' = Append(site_content_parts, task.url)
              /\ site_visited' = site_visited \cup {task.url}]_vars
    /\ [][(pc = "loop" /\ pc' = "seed") =>
              /\ final_aggregated_results'[Len(final_aggregated_results')].content
                     = site_content_parts
              /\ final_aggregated_results'[Len(final_aggregated_results')].childrenUrls
                     = site_children]_vars
    /\ [][(pc = "got" /\ html.kind = "page" /\ html.links = <<>>
               /\ task.url = parent_url /\ Len(start_urls) = 1) =>
              (queue' = <<>> /\ site_children' = <<>>
                  /\ site_content_parts' = <<parent_url>>)]_vars
    /\ []((pc = "returned" /\ Len(start_urls) = 1) =>
             /\ Len(final_aggregated_results) = 1
             /\ (final_aggregated_results[1].content = <<parent_url>>
                    => final_aggregated_results[1].childrenUrls = <<>>))

\* A seed without outbound links was crawled with the deep page budget: one
\* document, its content the seed's section, no children.
C13_Witness ==
    /\ pc = "returned"
    /\ max_pages = DeepPagesBound
    /\ Len(final_aggregated_results) = 1
    /\ final_aggregated_results[1].content = <<parent_url>>
    /\ final_aggregated_results[1].childrenUrls = <<>>
    /\ push_count = 1

\* ---- properties of the ranker ----

\* The positions at which tok occurs in s.
Occ(s, tok) == {i \in 1..Len(s) : match_at(s, i, tok)}

\* The number of occurrences of tok in s: the most occurrences that can be
\* taken without two of them overlapping.
Occurrences(s, tok) ==
    LET packs == {S \in SUBSET Occ(s, tok) :
                     \A i, j \in S : i < j => j - i >= Len(tok)}
    IN CHOOSE n \in 0..Len(s) :
           /\ \E S \in packs : Cardinality(S) = n
           /\ \A S \in packs : Cardinality(S) <= n

\* The tokens of q as spans <<first, last>>: the maximal runs without a
\* whitespace character.
TokenSpans(q) ==
    {sp \in (1..Len(q)) \X (1..Len(q)) :
        /\ sp[1] <= sp[2]
        /\ \A i \in sp[1]..sp[2] : q[i] # " "
        /\ (sp[1] = 1 \/ q[sp[1] - 1] = " ")
        /\ (sp[2] = Len(q) \/ q[sp[2] + 1] = " ")}

RECURSIVE ExpectedScore(_, _, _, _)
ExpectedScore(title, content, q, spans) ==
    IF spans = {} THEN 0
    ELSE LET sp == CHOOSE x \in spans : TRUE
             tok == SubSeq(q, sp[1], sp[2])
         IN 3 * Occurrences(title, tok) + Occurrences(content, tok)
                + ExpectedScore(title, content, q, spans \ {sp})

\* C14: the score of a candidate is, summed over the query tokens, 3 times
\* the occurrences of the token in the lower-cased title plus the
\* occurrences in the lower-cased content; a single term twice in the title
\* and once in the content scores 7.
C14_RankScore ==
    r_pc = "done" =>
        \A k \in 1..Len(r_out.entries) :
            LET e == r_out.entries[k]
                res == r_results[e.url]
                q == lower(r_query)
                spans == TokenSpans(q)
            IN /\ e.score = ExpectedScore(lower(res.title), lower(res.content), q, spans)
               /\ (/\ Cardinality(spans) = 1
                   /\ \A sp \in spans :
                        /\ Occurrences(lower(res.title), SubSeq(q, sp[1], sp[2])) = 2
                        /\ Occurrences(lower(res.content), SubSeq(q, sp[1], sp[2])) = 1)
                      => e.score = 7

\* A candidate whose title holds the query term twice, in upper case, and
\* whose content holds it once, in lower case, was scored 7.
C14_Witness ==
    /\ r_pc = "done"
    /\ r_query = <<"A">>
    /\ \E k \in 1..Len(r_out.entries) :
         /\ r_out.entries[k].score = 7
         /\ r_out.entries[k].title = <<"A", "A">>
         /\ r_results[r_out.entries[k].url].content = <<"a">>

\* C15: rank_results returns one entry per candidate, by non-increasing
\* score, entries of equal score in input order; the empty sequence for no
\* candidates.
C15_RankOrder ==
    r_pc = "done" =>
        /\ r_out.status = "ok"
        /\ Len(r_out.entries) = Len(r_results)
        /\ \A i \in 1..Len(r_results) :
             \E k \in 1..Len(r_out.entries) :
                 /\ r_out.entries[k].url = r_results[i].url
                 /\ r_out.entries[k].title = r_results[i].title
        /\ \A i, j \in 1..Len(r_out.entries) :
             i < j => /\ r_out.entries[i].score >= r_out.entries[j].score
                      /\ r_out.entries[i].score = r_out.entries[j].score
                            => r_out.entries[i].url < r_out.entries[j].url
        /\ r_results = <<>> => r_out.entries = <<>>

\* The second candidate scored higher than the first and was put first; the
\* first scored nothing.
C15_Witness ==
    /\ r_pc = "done"
    /\ Len(r_out.entries) = 2
    /\ r_out.entries[1].url = 2
    /\ r_out.entries[1].score > 0
    /\ r_out.entries[2].score = 0

\* C16: autonomous_search returns the ranker's output for the documents the
\* crawl produced, one ranked entry per aggregate document, without raising.
C16_AutonomousRanked ==
    (pc = "done" /\ r_pc = "done" /\ ~restrict_domain) =>
        /\ r_out.status = "ok"
        /\ Len(r_out.entries) = Len(final_aggregated_results)

\* C20: a URL whose fetch has failed in this crawl session is never fetched
\* again.
C20_NoRefetchAfterFailure ==
    pc = "fetch" => task.url \notin failed_urls

\* C18: in every run of the live scraper, a raising navigation or
\* extraction step included, the stop flag is set and the heartbeat task is
\* over by the time the browser is closed.
C18_HeartbeatJoinedBeforeClose ==
    live_browser = "closed" => (stop_heartbeat /\ hb_pc = "done")

\* C19: once the client has gone the cancellation flag is set: at most the
\* visit in flight at that moment is still made, and the heartbeat starts at
\* most one more iteration before its poll ends it.
C19_CancelOnDisconnect ==
    /\ gone_visits <= 1
    /\ gone_beats <= 1

\* ---- properties of the frontier ----

InLoop(p) == p \in {"loop", "fetch", "got"}

\* A measure of the work left in a parent's loop: the page budget left, then
\* the pending tasks, then the position in the iteration.
LoopMeasure ==
    ((max_pages - Cardinality(site_visited)) * (2 * max_pages + 2) + Len(queue)) * 3
        + (CASE pc = "fetch" -> 2 [] pc = "got" -> 1 [] OTHER -> 0)

\* C21: the loop of a parent terminates whatever the link graph and the
\* fetch failures (every step inside the loop lowers a measure that is never
\* negative), and when the loop condition ends it the frontier is empty or
\* the visited set has exactly max_pages elements.
C21_LoopTerminates ==
    /\ [](InLoop(pc) => LoopMeasure >= 0)
    /\ [][(InLoop(pc) /\ InLoop(pc')) => LoopMeasure' < LoopMeasure]_vars
    /\ [][(pc = "loop" /\ pc' = "seed") =>
              /\ (queue = <<>> \/ Cardinality(site_visited) = max_pages)
              /\ queue' = queue
              /\ site_visited' = site_visited]_vars

\* A parent's loop has ended on its budget of two pages, after a failed
\* fetch, with tasks still pending.
C21_Witness ==
    /\ pc = "seed"
    /\ max_pages = 2
    /\ Cardinality(site_visited) = 2
    /\ failed_urls # {}
    /\ queue # <<>>

PendingUrls(q) == {q[i].url : i \in 1..Len(q)}

\* C22: pushing the links of a page keeps the pending tasks as they are and
\* appends tasks only for URLs neither visited nor pending (nothing at all
\* when every link is visited or pending); so the frontier never holds two
\* tasks with one URL nor a task whose URL is visited.
C22_PushIgnoresKnown ==
    /\ [][(pc = "got" /\ html.kind = "page" /\ pc' = "loop") =>
              /\ SubSeq(queue', 1, Len(queue)) = queue
              /\ \A i \in (Len(queue) + 1)..Len(queue') :
                     /\ queue'[i].url \notin site_visited'
                     /\ queue'[i].url \notin PendingUrls(queue)
                     /\ \A j \in (Len(queue) + 1)..Len(queue') :
                            queue'[j].url = queue'[i].url => i = j
              /\ (SeqRange(html.links) \subseteq site_visited' \cup PendingUrls(queue))
                     => queue' = queue]_vars
    /\ []((\A i, j \in 1..Len(queue) : queue[i].url = queue[j].url => i = j)
             /\ PendingUrls(queue) \cap site_visited = {})

\* A fetched child page links to the seed, which is visited, and to a URL
\* that is pending, while the budget leaves room for more tasks.
C22_Witness ==
    /\ pc = "got"
    /\ html.kind = "page"
    /\ task.url # parent_url
    /\ queue # <<>>
    /\ html.links = <<parent_url, queue[1].url>>
    /\ Cardinality(site_visited) + 1 + Len(queue) < max_pages * 2

Min(a, b) == IF a < b THEN a ELSE b

\* The links of the fetched page that the loop would push: those that
\* extract_links returns and that are neither visited nor pending.
FreshLinks ==
    SeqRange(extract_links(html.links, task.url, query, restrict_domain))
        \ (site_visited \cup {task.url} \cup PendingUrls(queue))

\* C23: with max_pages >= 1 the pending tasks and the visited URLs together
\* never exceed 2 * max_pages (so the frontier stays below 5 * max_pages);
\* of the new links of a page only as many are pushed as this bound leaves
\* room for, the others are dropped.
C23_FrontierBounded ==
    /\ []((max_pages >= 1 /\ InLoop(pc)) =>
             /\ Len(queue) + Cardinality(site_visited) <= 2 * max_pages
             /\ Len(queue) <= 5 * max_pages)
    /\ [][(max_pages >= 1 /\ pc = "got" /\ html.kind = "page" /\ pc' = "loop") =>
              Len(queue') - Len(queue)
                  = Min(Cardinality(FreshLinks),
                        2 * max_pages - (Cardinality(site_visited) + 1 + Len(queue)))]_vars

\* With max_pages = 1 the seed's page has two new links and there is room
\* for one task only.
C23_Witness ==
    /\ pc = "got"
    /\ max_pages = 1
    /\ html.kind = "page"
    /\ Cardinality(FreshLinks) = 2
    /\ 2 * max_pages - (Cardinality(site_visited) + 1 + Len(queue)) = 1

\* The anchors of the fetched page whose href resolves.
ResolvableLinks == LET good(h) == h # BadHref IN SelectSeq(html.links, good)

\* C24: a page with an anchor whose href cannot be resolved is processed
\* like the page without that anchor: its other links are extracted and
\* pushed and the loop goes on.
C24_BadLinkDropped ==
    [][(pc = "got" /\ html.kind = "page" /\ BadHref \in SeqRange(html.links)) =>
           /\ pc' = "loop"
           /\ queue' = PushLinks(queue,
                                 extract_links(ResolvableLinks, task.url, query,
                                               restrict_domain),
                                 site_visited \cup {task.url}, push_count)]_vars

\* The score with which a fetched URL was pending: the seed's, or the
\* link score of the URL.
FetchScore(u) == IF u = parent_url THEN SeedScore ELSE score_link(u, query)

\* C25 as stated: the scores of the pages fetched under a parent, in fetch
\* order, never increase.
C25_FetchedDescending ==
    InLoop(pc) =>
        \A i, j \in 1..Len(site_content_parts) :
            i < j => FetchScore(site_content_parts[i]) >= FetchScore(site_content_parts[j])

\* C25 amended: a page is fetched only when no pending task has a higher
\* score; after a page is processed, a pending task that scores higher than
\* this page is one of the links this page has just added; the seed is the
\* first page fetched; without a query the fetched scores never increase.
C25_BestPendingFetched ==
    /\ [](pc \in {"fetch", "got"} => \A i \in 1..Len(queue) : queue[i].score <= task.score)
    /\ [][(pc = "got" /\ html.kind = "page" /\ pc' = "loop") =>
              \A i \in 1..Len(queue') : queue'[i].score > task.score => i > Len(queue)]_vars
    /\ []((InLoop(pc) /\ site_content_parts # <<>>) => site_content_parts[1] = parent_url)
    /\ []((InLoop(pc) /\ query = <<>>) =>
             \A i, j \in 1..Len(site_content_parts) :
                 i < j => FetchScore(site_content_parts[i])
                              >= FetchScore(site_content_parts[j]))

\* A task is about to be fetched whose score is higher than that of the
\* page fetched before it, while a lower-scoring task is pending.
C25_Witness ==
    /\ pc = "fetch"
    /\ site_content_parts # <<>>
    /\ task.score > FetchScore(site_content_parts[Len(site_content_parts)])
    /\ \E i \in 1..Len(queue) : queue[i].score < task.score

C28_NoFrameAfterResults ==
    /\ \A i, j \in 1..Len(sent) : (i < j /\ sent[i] = "results") => sent[j] # "live_frame"
    /\ (h_pc \in {"generate", "await_answer", "send_results"}
            \/ CountOf(sent, {"results"}) > 0) =>
           /\ hb_pc = "done"
           /\ \A i \in 1..Len(main_q) : main_q[i] \notin {"frame_cb", "frame_send"}

\* A session on a connected client: two frames, then the results event.
C28_Witness ==
    /\ connected
    /\ h_pc = "done"
    /\ sent = <<"live_frame", "live_frame", "results">>

\* ---- properties of html_to_markdown ----

\* The lines of a text.
RECURSIVE LinesOf(_, _)
LinesOf(s, line) ==
    IF s = <<>> THEN {line}
    ELSE IF Head(s) = "\n" THEN {line} \cup LinesOf(Tail(s), <<>>)
    ELSE LinesOf(Tail(s), Append(line, Head(s)))

Contains(s, t) == \E i \in 1..Len(s) : match_at(s, i, t)

\* A string without the blanks around it.
Trim(t) ==
    LET solid == {i \in 1..Len(t) : t[i] # " "}
    IN IF solid = {} THEN <<>>
       ELSE SubSeq(t, CHOOSE i \in solid : \A j \in solid : i <= j,
                      CHOOSE i \in solid : \A j \in solid : i >= j)

\* The text of an element all of whose children are strings.
RECURSIVE PlainText(_)
PlainText(ks) == IF ks = <<>> THEN <<>> ELSE Trim(Head(ks).text) \o PlainText(Tail(ks))

AllStrings(ks) == \A i \in 1..Len(ks) : ks[i].kind = "text"

\* The absolute URL an href of the model stands for under a base URL.
Resolved(base, href) ==
    IF href = RootedHref THEN <<base.origin, "/", "x">>
    ELSE IF href = AbsoluteHref THEN <<"https://b.com", "/", "z">>
    ELSE IF base.path = <<>> THEN <<base.origin, "/", "y">>
    ELSE <<base.origin, "/", "d", "/", "y">>

HeadingLine(lv, text) == [i \in 1..lv |-> "#"] \o <<" ">> \o text

AnchorText(text, base, href) == <<"[">> \o text \o <<"]", "(">> \o Resolved(base, href) \o <<")">>

\* C17: a heading h<n> becomes the line of n '#', a space and its text, and
\* an anchor becomes [text](href resolved against the base URL): alone in
\* the document, and as a child of a block of the content area.
C17_HeadingAndAnchor ==
    md_pc = "done" =>
        LET top == md_html.kids[1]
            block == top.name \in {"div", "ul"}
                        /\ md_out.status = "ok"
                        /\ \A i \in 1..Len(top.kids) : top.kids[i].name # "main"
        IN /\ (top.name = "h" /\ AllStrings(top.kids) /\ PlainText(top.kids) # <<>>)
                 => md_out = [status |-> "ok",
                              text |-> HeadingLine(top.level, PlainText(top.kids))]
           /\ (top.name = "a" /\ top.href.kind = "url" /\ AllStrings(top.kids)
                  /\ PlainText(top.kids) # <<>>)
                 => md_out = [status |-> "ok",
                              text |-> AnchorText(PlainText(top.kids), md_base, top.href)]
           /\ block =>
                 \A i \in 1..Len(top.kids) :
                     LET kid == top.kids[i]
                     IN /\ (kid.name = "h" /\ PlainText(kid.kids) # <<>>)
                              => HeadingLine(kid.level, PlainText(kid.kids))
                                     \in LinesOf(md_out.text, <<>>)
                        /\ (kid.name = "a" /\ kid.href.kind = "url"
                               /\ PlainText(kid.kids) # <<>>)
                              => Contains(md_out.text,
                                          AnchorText(PlainText(kid.kids), md_base, kid.href))

\* <h2>t</h2> and <a href="/x">t</a> in one block, base https://a.com:
\* the line "## t" and the link [t](https://a.com/x).
C17_Witness ==
    /\ md_pc = "done"
    /\ md_base = [origin |-> "https://a.com", path |-> <<>>]
    /\ md_html.kids[1].name = "div"
    /\ md_html.kids[1].kids = <<Tag("h", 2, NoHref, <<Text(<<" ", "t", " ">>)>>),
                                Tag("a", 0, RootedHref, <<Text(<<" ", "t", " ">>)>>)>>
    /\ md_out.text = <<"#", "#", " ", "t", "\n", "\n",
                       "[", "t", "]", "(", "https://a.com", "/", "x", ")">>

\* C29: the text html_to_markdown returns has no three line breaks in a
\* row, no line that ends in a blank, and no whitespace at its start or end.
C29_MarkdownClean ==
    (md_pc = "done" /\ md_out.status = "ok") =>
        LET out == md_out.text
        IN /\ \A i \in 1..Len(out) :
                 ~(i + 2 <= Len(out) /\ out[i] = "\n" /\ out[i + 1] = "\n"
                       /\ out[i + 2] = "\n")
           /\ \A i \in 1..Len(out) :
                 (out[i] = " ") => (i < Len(out) /\ out[i + 1] # "\n")
           /\ out # <<>> => (out[1] \notin Whitespace /\ out[Len(out)] \notin Whitespace)

\* ---- properties of the detailed scrape ----

\* C30: the content field of the json object a successful detailed scrape
\* returns is the text extract_data extracted from the page, whatever meta
\* elements the page has.
C30_ContentIsExtractedText ==
    (sd_pc = "done" /\ sd_out.kind = "data") =>
        sd_out.json.content = extract_data(sd_page).text

\* ---- properties of the async callers ----

\* C27: no coroutine on the event-loop thread ever has a blocking worker
\* on its call stack; the workers run as jobs of pool threads only, and the
\* coroutine that submitted a job is suspended, off the loop thread, until
\* the job is over.
C27_WorkersOffTheLoop ==
    /\ \A r \in Requests : \A i \in 1..Len(br_stack[r]) :
           br_stack[r][i] \notin BlockingWorkers
    /\ \A t \in Threads :
           br_pool[t] # NoJob =>
               /\ br_pool[t].fn \in BlockingWorkers
               /\ br_state[br_pool[t].req] = "awaiting"
               /\ br_loop # br_pool[t].req
    /\ \A i \in 1..Len(br_jobs) :
           /\ br_jobs[i].fn \in BlockingWorkers
           /\ br_state[br_jobs[i].req] = "awaiting"
    /\ \A r \in Requests :
           br_state[r] = "awaiting" =>
               \/ \E t \in Threads : br_pool[t].req = r
               \/ \E i \in 1..Len(br_jobs) : br_jobs[i].req = r

\* A pool thread runs _sync_crawl_worker for the autonomous search of the
\* first request while the loop thread is in the handler of the second.
C27_Witness ==
    /\ br_route[1] = "auto"
    /\ \E t \in Threads : br_pool[t] = [req |-> 1, fn |-> "_sync_crawl_worker"]
    /\ br_loop = 2
    /\ br_state[2] = "running"

====
